---- MODULE Spec2Model ----
(***************************************************************************)
(* The plan-run execution engine of portia/portia.py: Portia._resume, the  *)
(* step loop _execute_plan_run, the clarification lifecycle                *)
(* (resolve_clarification, error_clarification, _handle_clarifications),   *)
(* the readiness gate _check_remaining_tool_readiness and the backoff wait *)
(* wait_for_ready, over one PlanRun held in a store.                       *)
(*                                                                         *)
(* store is the persisted PlanRun; mem is the PlanRun object a running     *)
(* Resume call works on. Every storage.save_plan_run(plan_run) is          *)
(* store' = <the object>. One action is the code between two points where  *)
(* the call can be left or other callers can act: the return of a call, a  *)
(* pass of the step loop's body, a clarification handler invocation, the   *)
(* sleep of wait_for_ready.                                                *)
(***************************************************************************)
EXTENDS Integers, Sequences, FiniteSets, TLC

\* ---------------------------------------------------------------- bounds
MaxSteps == 3       \* plans have at most this many steps
MaxCalls == 3       \* agent invocations explored inside one Resume call
MaxPolls == 1       \* polls of wait_for_ready explored before the backoff period starts
MaxClars == 2       \* clarifications explored in one run's list
MaxOps == 3         \* API calls (Resume, resolve, error, wait_for_ready) explored on one run

\* ------------------------------------------------------- program constants
DefaultMaxRetries == 6          \* wait_for_ready(max_retries=6)
DefaultBackoffStart == 420      \* wait_for_ready(backoff_start_time_seconds=7 * 60)
DefaultBackoffTime == 2         \* wait_for_ready(backoff_time_seconds=2)

\* ------------------------------------------------------------- data model
NOT_STARTED == "NOT_STARTED"
IN_PROGRESS == "IN_PROGRESS"
NEED_CLARIFICATION == "NEED_CLARIFICATION"
READY_TO_RESUME == "READY_TO_RESUME"
COMPLETE == "COMPLETE"
FAILED == "FAILED"

PlanRunState ==
  {NOT_STARTED, IN_PROGRESS, NEED_CLARIFICATION, READY_TO_RESUME, COMPLETE, FAILED}

\* Variants of ResumableStates: a state check that lets every state through,
\* and one that turns a paused run away.
AllStatesResumable ==
  {NOT_STARTED, IN_PROGRESS, NEED_CLARIFICATION, READY_TO_RESUME, COMPLETE, FAILED}
ResumableUnlessPaused == {NOT_STARTED, IN_PROGRESS, READY_TO_RESUME}

\* the states _resume and wait_for_ready accept
ResumableStates == {NOT_STARTED, IN_PROGRESS, NEED_CLARIFICATION, READY_TO_RESUME}

\* the states the loop of execute_plan_run_and_handle_clarifications stops at
TerminalStates == {COMPLETE, FAILED}

\* Tools of the registry. A step's tool_id is one of these or NoTool (None).
NoTool == "none"
LocalTools == {"T1", "T2", "T3"}
\* tools whose id starts with "portia:" (PortiaRemoteTool)
RemoteTools == {"portia:R1", "portia:R2"}
ToolIds == LocalTools \cup RemoteTools

IsRemote(t) == t \in RemoteTools

\* ClarificationCategory
CatAction == "ACTION"
CatInput == "INPUT"

\* Clarification ids. A tool that is not ready reports a clarification whose id is
\* stable across polls (named after the tool here); "input" is a clarification
\* an execution agent asks of the user.
InputClar == "input"
ClarIds == ToolIds \cup {InputClar}
CategoryOf(id) == IF id = InputClar THEN CatInput ELSE CatAction

\* A Clarification as a tool or an agent hands it over: unresolved, step unset.
NewClarification(id) ==
  [id |-> id, category |-> CategoryOf(id), step |-> -1, resolved |-> FALSE,
   response |-> "none"]

\* Outputs. kind: "none" (no output), "val" (an agent's value), "err" (a captured
\* error), "skipped"/"completed" (the introspection sentinels), "clar" (a value
\* that is, or contains, clarifications); step: the step that produced the value;
\* summary: whether a summary is attached.
NoOutput == [kind |-> "none", step |-> -1, summary |-> FALSE]
Out(kind, i, s) == [kind |-> kind, step |-> i, summary |-> s]

StepIdx(p) == 0 .. (Len(p) - 1)

\* PlanRun(state=NOT_STARTED) with empty outputs
NewPlanRun(p) ==
  [state |-> NOT_STARTED,
   current_step_index |-> 0,
   step_outputs |-> [k \in StepIdx(p) |-> NoOutput],
   clarifications |-> <<>>,
   final_output |-> NoOutput]

\* PlanRun.get_outstanding_clarifications(): the unresolved ones, as positions of
\* the run's list (the list holds the objects, so a change made through a
\* returned clarification is a change of the run)
OutstandingPos(run) ==
  {q \in 1 .. Len(run.clarifications) : ~run.clarifications[q].resolved}

\* PlanRun.get_clarifications_for_step(): those of the current step
StepClarPos(run) ==
  {q \in 1 .. Len(run.clarifications) :
     run.clarifications[q].step = run.current_step_index}

ClarIdsOf(run) == {run.clarifications[q].id : q \in 1 .. Len(run.clarifications)}

\* the positions of a set, ascending
RECURSIVE SortedPos(_)
SortedPos(S) ==
  IF S = {} THEN <<>>
  ELSE LET m == CHOOSE y \in S : \A z \in S : y <= z IN <<m>> \o SortedPos(S \ {m})

\* ------------------------------------------------------------------ state
VARIABLES
  plan,      \* the Plan: a sequence of steps [tool_id, condition]; step i's output key is i
  handler,   \* whether execution_hooks.clarification_handler is configured
  store,     \* the persisted PlanRun
  mem,       \* the PlanRun object of the Resume call in progress
  pc,        \* where the call in progress stands; "idle" when there is none
  phase,     \* "prelude" (_resume) or "execute" (inside the try of
             \* execute_plan_run_and_handle_clarifications)
  index,     \* the step loop's index
  last,      \* last_executed_step_output of _execute_plan_run
  todo,      \* ids of the clarifications _handle_clarifications has yet to hand over
  wrun,      \* wait_for_ready's plan_run
  wctx,      \* who called wait_for_ready: "caller" or "handler"
  wpar,      \* its max_retries and backoff_start_time_seconds
  tries,     \* its retry counter
  interval,  \* its backoff_time_seconds
  elapsed,   \* time.time() - start_time, saturated just above backoff_start_time_seconds
  polls,     \* its polls before the backoff period
  calls,     \* steps whose agent the current (or last) Resume call has invoked, in order
  flags,     \* what has happened during that call
  start,     \* state and current step index of the run when that call began
  result,    \* the latest API call and how it ended
  ops,       \* API calls made so far
  polled,    \* the readiness check of the latest action, if it was made by _resume or
             \* by the step loop: its start index and the tools that were not ready
  ev,        \* hooks, oracle and agent invoked by the latest action, in order
  storage,   \* two runs side by side (TwoRunSpec): the persisted PlanRun of each run id
  held,      \* for each of them, the PlanRun object, loop index and last output of
             \* the Resume call that is executing it, if any
  actor,     \* the run id the latest operation was called for
  loaded     \* overlapping resolve_clarification calls (ResolveSpec): for each caller
             \* the PlanRun object its call in progress has loaded and the id of the
             \* clarification it was passed

\* what no call on the run of Spec changes: the configuration, and the variables
\* of TwoRunSpec and ResolveSpec, which Spec leaves empty
cfgVars == <<plan, handler, storage, held, actor, loaded>>
NoPoll == [from |-> -1, unready |-> {}]
Poll(i, unready) == [from |-> i, unready |-> unready]
ApiCall == ops < MaxOps /\ ops' = ops + 1
loopVars == <<index, last>>
waitVars == <<wrun, wctx, wpar, tries, interval, elapsed, polls>>
histVars == <<calls, flags, start>>
vars ==
  <<plan, handler, store, mem, pc, phase, index, last, todo, wrun, wctx, wpar, tries,
    interval, elapsed, polls, calls, flags, start, result, ops, polled, ev, storage,
    held, actor, loaded>>

\* ----------------------------------------------------------------- inputs
\* A step: its tool id (or none) and whether it declares a condition.
StepOf(t, c) == [tool_id |-> t, condition |-> c]

\* The plans explored, each with or without a clarification handler configured.
\* Chains of n steps, each with its own tool and no condition (T1, T2, T3, T1, ...);
\* two steps sharing a tool; steps with conditions, with and without a tool; two
\* remote tools; and one plan run with a clarification handler.
LocalToolSeq == <<"T1", "T2", "T3">>
ChainPlan(n) ==
  [k \in 1 .. n |-> StepOf(LocalToolSeq[((k - 1) % Len(LocalToolSeq)) + 1], FALSE)]

Configs ==
  {[plan |-> ChainPlan(n), handler |-> FALSE] : n \in 0 .. MaxSteps}
    \cup {[plan |-> <<StepOf("T1", FALSE), StepOf("T1", FALSE)>>, handler |-> FALSE],
          [plan |-> <<StepOf("T1", TRUE), StepOf(NoTool, TRUE)>>, handler |-> FALSE],
          [plan |-> <<StepOf("portia:R1", FALSE), StepOf("portia:R2", FALSE)>>,
           handler |-> FALSE],
          [plan |-> <<StepOf("T1", FALSE)>>, handler |-> TRUE]}

\* What one execution of a step's agent can produce: a value, an exception, or
\* an output holding clarifications (of a step with a tool: the tool's action
\* clarification, an input clarification, or both).
AgentOutcomes(t) ==
  {[kind |-> "val", clars |-> <<>>], [kind |-> "err", clars |-> <<>>]}
    \cup (IF t = NoTool THEN {}
          ELSE {[kind |-> "clar", clars |-> cs] :
                  cs \in {<<t>>, <<InputClar>>, <<t, InputClar>>}})

\* how the clarifications of an agent's output are named in the events
ClarsName(cs) ==
  IF cs = <<InputClar>> THEN "input" ELSE IF Len(cs) = 1 THEN "tool" ELSE "both"

\* What a call of wait_for_ready by the caller passes
CallerWaitParams ==
  {[max_retries |-> 2, backoff_start |-> 0, backoff_time |-> 1],
   [max_retries |-> 0, backoff_start |-> 1, backoff_time |-> 1]}

HandlerWaitParams ==
  [max_retries |-> DefaultMaxRetries, backoff_start |-> DefaultBackoffStart,
   backoff_time |-> DefaultBackoffTime]

\* --------------------------------------------------------- readiness gate
\* The queries a readiness check makes: tool.ready() of one tool, or
\* PortiaRemoteTool.batch_ready_check of a set of remote tools
ReadyQuery(t) == [kind |-> "ready", tools |-> {t}]
BatchQuery(cloud) == [kind |-> "batch", tools |-> cloud]

\* A variant of ScanSteps that does not remember the tools it has met
RECURSIVE ScanStepsForgetful(_, _, _, _, _, _, _)
ScanStepsForgetful(p, i, unready, tools_remaining, cloud, acc, asked) ==
  IF i >= Len(p) THEN [cloud |-> cloud, clarifications |-> acc, asked |-> asked]
  ELSE LET t == p[i + 1].tool_id IN
       IF t = NoTool
       THEN ScanStepsForgetful(p, i + 1, unready, tools_remaining, cloud, acc, asked)
       ELSE IF IsRemote(t)
       THEN ScanStepsForgetful(p, i + 1, unready, tools_remaining, cloud \cup {t}, acc,
                               asked)
       ELSE ScanStepsForgetful(p, i + 1, unready, tools_remaining, cloud,
                               IF t \in unready THEN Append(acc, NewClarification(t))
                               ELSE acc,
                               Append(asked, ReadyQuery(t)))

\* The scan of _check_remaining_tool_readiness over steps i .. end: the first
\* occurrence of each tool id; a remote tool is put aside, any other is asked
\* ready() at once. unready is what the tools answer at this poll; asked is the
\* queries made so far.
RECURSIVE ScanSteps(_, _, _, _, _, _, _)
ScanSteps(p, i, unready, tools_remaining, cloud, acc, asked) ==
  IF i >= Len(p) THEN [cloud |-> cloud, clarifications |-> acc, asked |-> asked]
  ELSE LET t == p[i + 1].tool_id IN
       IF t = NoTool \/ t \in tools_remaining
       THEN ScanSteps(p, i + 1, unready, tools_remaining, cloud, acc, asked)
       ELSE IF IsRemote(t)
       THEN ScanSteps(p, i + 1, unready, tools_remaining \cup {t}, cloud \cup {t}, acc,
                      asked)
       ELSE ScanSteps(p, i + 1, unready, tools_remaining \cup {t}, cloud,
                      IF t \in unready THEN Append(acc, NewClarification(t)) ELSE acc,
                      Append(asked, ReadyQuery(t)))

\* PortiaRemoteTool.batch_ready_check: the clarifications of the remote tools
\* that are not ready
RECURSIVE BatchReadyCheck(_, _)
BatchReadyCheck(cloud, unready) ==
  IF cloud \cap unready = {} THEN <<>>
  ELSE LET t == CHOOSE x \in cloud \cap unready : TRUE IN
       <<NewClarification(t)>> \o BatchReadyCheck(cloud \ {t}, unready)

CheckRemainingToolReadiness(p, check_from_index, unready) ==
  LET scan == ScanSteps(p, check_from_index, unready, {}, {}, <<>>, <<>>) IN
  IF scan.cloud = {} THEN scan.clarifications
  ELSE scan.clarifications \o BatchReadyCheck(scan.cloud, unready)

\* the queries _check_remaining_tool_readiness makes, in order
ReadinessQueries(p, check_from_index) ==
  LET scan == ScanSteps(p, check_from_index, {}, {}, {}, <<>>, <<>>) IN
  IF scan.cloud = {} THEN scan.asked
  ELSE Append(scan.asked, BatchQuery(scan.cloud))

\* the tools a poll from step i can ask
ToolsFrom(p, i) ==
  {p[k + 1].tool_id : k \in {j \in StepIdx(p) : j >= i}} \ {NoTool}

\* ---------------------------------------------------- clarification lifecycle
\* A variant of RaiseClarifications that tags what it adds with the next index
RaiseClarificationsTaggedAhead(run, aliased, fresh) ==
  LET freshTagged == [q \in 1 .. Len(fresh) |->
                        [fresh[q] EXCEPT !.step = run.current_step_index + 1]]
      existing_clarification_ids == ClarIdsOf(run)
      new_clarifications ==
        SelectSeq(freshTagged, LAMBDA c : c.id \notin existing_clarification_ids)
  IN [run EXCEPT !.clarifications = run.clarifications \o new_clarifications,
                 !.state = NEED_CLARIFICATION]

\* A variant of RaiseClarifications that leaves the step of a clarification unset
RaiseClarificationsUntagged(run, aliased, fresh) ==
  LET existing_clarification_ids == ClarIdsOf(run)
      new_clarifications ==
        SelectSeq(fresh, LAMBDA c : c.id \notin existing_clarification_ids)
  IN [run EXCEPT !.clarifications = run.clarifications \o new_clarifications,
                 !.state = NEED_CLARIFICATION]

\* _raise_clarifications(clarifications, plan_run): every clarification passed is
\* tagged with the current step index (aliased: those that are objects of the
\* run's own list; fresh: the others), the ones whose id the run does not hold
\* yet are appended, the state is set and the run saved.
RaiseClarifications(run, aliased, fresh) ==
  LET tagged == [q \in 1 .. Len(run.clarifications) |->
                   IF q \in aliased
                   THEN [run.clarifications[q] EXCEPT !.step = run.current_step_index]
                   ELSE run.clarifications[q]]
      freshTagged == [q \in 1 .. Len(fresh) |->
                        [fresh[q] EXCEPT !.step = run.current_step_index]]
      existing_clarification_ids == ClarIdsOf(run)
      new_clarifications ==
        SelectSeq(freshTagged, LAMBDA c : c.id \notin existing_clarification_ids)
  IN [run EXCEPT !.clarifications = tagged \o new_clarifications,
                 !.state = NEED_CLARIFICATION]

\* A variant of MatchedPos that falls back on the last clarification of the run
MatchedPosOrLast(run, id) ==
  LET S == {q \in 1 .. Len(run.clarifications) : run.clarifications[q].id = id} IN
  IF S = {} THEN Len(run.clarifications) ELSE CHOOSE q \in S : \A r \in S : q <= r

\* resolve_clarification: the first clarification of the run with that id, 0 if none
MatchedPos(run, id) ==
  LET S == {q \in 1 .. Len(run.clarifications) : run.clarifications[q].id = id} IN
  IF S = {} THEN 0 ELSE CHOOSE q \in S : \A r \in S : q <= r

\* A variant of ResolveIn that sets READY_TO_RESUME whatever is left outstanding
ResolveInAlwaysReady(run, id, response) ==
  LET q == MatchedPos(run, id) IN
  [run EXCEPT !.clarifications[q].resolved = TRUE,
              !.clarifications[q].response = response,
              !.state = READY_TO_RESUME]

\* A variant of ResolveIn that looks at the outstanding INPUT clarifications only
ResolveInReadyUnlessInput(run, id, response) ==
  LET q == MatchedPos(run, id)
      marked == [run EXCEPT !.clarifications[q].resolved = TRUE,
                            !.clarifications[q].response = response]
  IN IF \A k \in OutstandingPos(marked) : marked.clarifications[k].category # CatInput
     THEN [marked EXCEPT !.state = READY_TO_RESUME]
     ELSE marked

\* resolve_clarification on a run that holds the clarification
ResolveIn(run, id, response) ==
  LET q == MatchedPos(run, id)
      marked == [run EXCEPT !.clarifications[q].resolved = TRUE,
                            !.clarifications[q].response = response]
  IN IF OutstandingPos(marked) = {}
     THEN [marked EXCEPT !.state = READY_TO_RESUME]
     ELSE marked

\* error_clarification
ErrorIn(run) == [run EXCEPT !.state = FAILED]

\* ------------------------------------------------------------------- Init
NoRun == [state |-> "none", current_step_index |-> 0, step_outputs |-> <<>>,
          clarifications |-> <<>>, final_output |-> NoOutput]
NoWaitParams == [max_retries |-> 0, backoff_start |-> 0, backoff_time |-> 0]
NoStart == [state |-> "none", index |-> 0]
Result(op, outcome) == [op |-> op, outcome |-> outcome]

\* How a call ends: it returns the run, or raises InvalidPlanRunStateError: for
\* the state of the run (_resume, wait_for_ready), for the retry ceiling
\* (wait_for_ready), for a clarification the run does not hold
\* (resolve_clarification).
Returned == "returned"
InvalidState == "InvalidPlanRunStateError"
WaitTimeout == "InvalidPlanRunStateError: not ready to resume after max retries"
Unmatched == "InvalidPlanRunStateError: could not match clarification to run"
IsRaise(outcome) == outcome \in {InvalidState, WaitTimeout, Unmatched}

Init ==
  /\ \E c \in Configs : plan = c.plan /\ handler = c.handler
  /\ store = NewPlanRun(plan)
  /\ mem = NoRun
  /\ pc = "idle"
  /\ phase = "none"
  /\ index = 0
  /\ last = NoOutput
  /\ todo = <<>>
  /\ wrun = NoRun
  /\ wctx = "none"
  /\ wpar = NoWaitParams
  /\ tries = 0
  /\ interval = 0
  /\ elapsed = 0
  /\ polls = 0
  /\ calls = <<>>
  /\ flags = {}
  /\ start = NoStart
  /\ result = Result("none", "none")
  /\ ops = 0
  /\ polled = NoPoll
  /\ ev = <<>>
  /\ storage = <<>>
  /\ held = <<>>
  /\ actor = "none"
  /\ loaded = <<>>

\* the call in progress ends: its locals are dropped
EndCall(op, outcome) ==
  /\ pc' = "idle"
  /\ phase' = "none"
  /\ mem' = NoRun
  /\ index' = 0
  /\ last' = NoOutput
  /\ todo' = <<>>
  /\ wrun' = NoRun
  /\ wctx' = "none"
  /\ wpar' = NoWaitParams
  /\ tries' = 0
  /\ interval' = 0
  /\ elapsed' = 0
  /\ polls' = 0
  /\ result' = Result(op, outcome)

\* A variant of AfterRun that never pauses: the run goes (back) to the loop
AfterRunNoPause(run, ph) ==
  /\ UNCHANGED waitVars
  /\ index' = 0
  /\ last' = NoOutput
  /\ pc' = "exec"
  /\ phase' = "execute"
  /\ mem' = run
  /\ todo' = <<>>
  /\ result' = Result("resume", "running")

\* A variant of AfterRun that pauses only for a clarification handler: with none
\* configured the run goes (back) to the loop whatever is outstanding
AfterRunPauseForHandler(run, ph) ==
  /\ UNCHANGED waitVars
  /\ index' = 0
  /\ last' = NoOutput
  /\ mem' = run
  /\ result' = Result("resume", "running")
  /\ IF OutstandingPos(run) # {} /\ handler
     THEN /\ pc' = "handle"
          /\ phase' = ph
          /\ todo' = [q \in 1 .. Cardinality(OutstandingPos(run)) |->
                        run.clarifications[SortedPos(OutstandingPos(run))[q]].id]
     ELSE /\ pc' = "exec"
          /\ phase' = "execute"
          /\ todo' = <<>>

\* After _raise_clarifications in _resume and after _execute_plan_run in
\* execute_plan_run_and_handle_clarifications alike: _handle_clarifications, then
\* return if clarifications are outstanding, else (back to) the loop of
\* execute_plan_run_and_handle_clarifications. Without a handler, or with nothing
\* outstanding, _handle_clarifications returns the run as it is.
AfterRun(run, ph) ==
  /\ UNCHANGED waitVars
  /\ index' = 0
  /\ last' = NoOutput
  /\ IF OutstandingPos(run) = {}
     THEN /\ pc' = "exec"
          /\ phase' = "execute"
          /\ mem' = run
          /\ todo' = <<>>
          /\ result' = Result("resume", "running")
     ELSE IF handler
     THEN /\ pc' = "handle"
          /\ phase' = ph
          /\ mem' = run
          /\ todo' = [q \in 1 .. Cardinality(OutstandingPos(run)) |->
                        run.clarifications[SortedPos(OutstandingPos(run))[q]].id]
          /\ result' = Result("resume", "running")
     ELSE /\ pc' = "idle"
          /\ phase' = "none"
          /\ mem' = NoRun
          /\ todo' = <<>>
          /\ result' = Result("resume", Returned)

\* ---------------------------------------------------------------- _resume
\* _resume up to the call of execute_plan_run_and_handle_clarifications: the state
\* check, the initial readiness check, _raise_clarifications.
Resume ==
  /\ pc = "idle"
  /\ ApiCall
  /\ calls' = <<>>
  /\ ev' = <<>>
  /\ start' = [state |-> store.state, index |-> store.current_step_index]
  /\ UNCHANGED cfgVars
  /\ IF store.state \notin ResumableStates
     THEN /\ EndCall("resume", InvalidState)
          /\ flags' = {}
          /\ polled' = NoPoll
          /\ UNCHANGED store
     ELSE \E unready \in SUBSET ToolsFrom(plan, store.current_step_index) :
            LET outstanding_clarifications == OutstandingPos(store)
                ready_clarifications ==
                  CheckRemainingToolReadiness(plan, store.current_step_index, unready)
                raised == RaiseClarifications(store, outstanding_clarifications,
                                              ready_clarifications)
            IN /\ polled' = Poll(store.current_step_index, unready)
               /\ flags' = {}
               /\ IF outstanding_clarifications = {} /\ ready_clarifications = <<>>
                  THEN /\ UNCHANGED store
                       /\ AfterRun(store, "prelude")
                  ELSE /\ Len(raised.clarifications) <= MaxClars
                       /\ store' = raised
                       /\ AfterRun(raised, "prelude")

\* ------------------------------------------------- _handle_clarifications
\* One clarification is handed to the clarification handler, which calls
\* on_resolution (resolve_clarification on the run loaded from the store),
\* on_error (error_clarification on the run loaded from the store), or neither
\* (it will answer later, or never). After the last one: wait_for_ready(plan_run)
\* with its defaults.
HandleClarification ==
  /\ pc = "handle"
  /\ polled' = NoPoll
  /\ todo # <<>>
  /\ \E answer \in {"resolve", "error", "later"} :
       LET id == Head(todo) IN
       /\ ev' = <<<<"handler", answer>>>>
       /\ UNCHANGED <<ops, cfgVars, calls, start>>
       /\ flags' = IF answer = "error" THEN flags \cup {"on_error"} ELSE flags
       /\ IF answer = "resolve" /\ MatchedPos(store, id) = 0
          THEN /\ EndCall("resume", Unmatched)
               /\ UNCHANGED store
          ELSE /\ store' = CASE answer = "resolve" -> ResolveIn(store, id, "user")
                              [] answer = "error" -> ErrorIn(store)
                              [] OTHER -> store
               /\ todo' = Tail(todo)
               /\ UNCHANGED <<mem, phase, loopVars, result>>
               /\ IF Tail(todo) = <<>>
                  THEN /\ pc' = "wait"
                       /\ wrun' = mem
                       /\ wctx' = "handler"
                       /\ wpar' = HandlerWaitParams
                       /\ tries' = 0
                       /\ interval' = HandlerWaitParams.backoff_time
                       /\ elapsed' = 0
                       /\ polls' = 0
                  ELSE /\ pc' = "handle"
                       /\ UNCHANGED waitVars

\* ---------------------------------------------------------- wait_for_ready
\* A variant of ContinueStraightAway: no state returns at once
ContinueNever == {}

\* wait_for_ready: "These states can continue straight away"
ContinueStraightAway == {IN_PROGRESS, NOT_STARTED, READY_TO_RESUME}

\* wait_for_ready called by the caller with the persisted run: the state checks
\* before the loop.
WaitForReady ==
  /\ pc = "idle"
  /\ polled' = NoPoll
  /\ ApiCall
  /\ calls' = <<>>
  /\ flags' = {}
  /\ start' = NoStart
  /\ ev' = <<>>
  /\ UNCHANGED <<cfgVars, store>>
  /\ \E par \in CallerWaitParams :
       IF store.state \notin ResumableStates
       THEN EndCall("wait", InvalidState)
       ELSE IF store.state \in ContinueStraightAway
       THEN EndCall("wait", Returned)
       ELSE /\ pc' = "wait"
            /\ wrun' = store
            /\ wctx' = "caller"
            /\ wpar' = [max_retries |-> par.max_retries,
                        backoff_start |-> par.backoff_start,
                        backoff_time |-> par.backoff_time]
            /\ tries' = 0
            /\ interval' = par.backoff_time
            /\ elapsed' = 0
            /\ polls' = 0
            /\ result' = Result("wait", "running")
            /\ UNCHANGED <<mem, phase, loopVars, todo>>

\* Variants of RetriesExhausted: no retry ceiling; a ceiling one retry higher
RetriesNeverExhausted(t, max_retries) == FALSE
RetriesExceeded(t, max_retries) == t > max_retries

\* wait_for_ready's retry ceiling: if tries >= max_retries: raise
RetriesExhausted(t, max_retries) == t >= max_retries

\* A variant of BackoffStarted: the backoff period starts at once
BackoffStartedAtOnce(now, backoff_start_time_seconds) == TRUE

\* wait_for_ready: if time.time() - start_time > backoff_start_time_seconds
BackoffStarted(now, backoff_start_time_seconds) == now > backoff_start_time_seconds

WaitOp == IF wctx = "caller" THEN "wait" ELSE "resume"

\* The loop of wait_for_ready from its condition to time.sleep: the run is
\* loaded again, the retry ceiling checked, and once the time waited exceeds
\* backoff_start_time_seconds the counter is incremented and the sleep doubled.
\* late: collaborator calls have taken long enough for the time waited to exceed
\* backoff_start_time_seconds, whatever has been slept.
WaitLoop ==
  /\ pc = "wait"
  /\ polled' = NoPoll
  /\ ev' = <<>>
  /\ UNCHANGED <<ops, cfgVars, store, histVars>>
  /\ IF wrun.state = READY_TO_RESUME
     THEN \* the loop ends and wait_for_ready returns plan_run
          IF wctx = "caller"
          THEN EndCall("wait", Returned)
          ELSE IF OutstandingPos(wrun) # {}
          THEN EndCall("resume", Returned)
          ELSE /\ pc' = "exec"
               /\ phase' = "execute"
               /\ mem' = wrun
               /\ wrun' = NoRun
               /\ wctx' = "none"
               /\ wpar' = NoWaitParams
               /\ tries' = 0
               /\ interval' = 0
               /\ elapsed' = 0
               /\ polls' = 0
               /\ UNCHANGED <<loopVars, todo, result>>
     ELSE IF RetriesExhausted(tries, wpar.max_retries)
     THEN EndCall(WaitOp, WaitTimeout)
     ELSE \E late \in BOOLEAN :
            LET now == IF late THEN wpar.backoff_start + 1 ELSE elapsed
                backoff == BackoffStarted(now, wpar.backoff_start)
                slept == IF backoff THEN interval * 2 ELSE interval
                after == now + slept
            IN /\ backoff \/ polls < MaxPolls
               /\ wrun' = store
               /\ tries' = IF backoff THEN tries + 1 ELSE tries
               /\ interval' = slept
               /\ elapsed' = IF after > wpar.backoff_start
                             THEN wpar.backoff_start + 1 ELSE after
               /\ polls' = IF backoff THEN polls ELSE polls + 1
               /\ pc' = "sleep"
               /\ UNCHANGED <<mem, phase, loopVars, todo, wctx, wpar, result>>

\* Variants of AutoResolved: one that marks nothing, one that marks the
\* clarifications of the current step whatever their category
AutoResolvedNone(run) == run
AutoResolvedAnyCategory(run) ==
  [run EXCEPT !.clarifications =
     [q \in 1 .. Len(run.clarifications) |->
        IF q \in StepClarPos(run)
        THEN [run.clarifications[q] EXCEPT !.resolved = TRUE, !.response = "complete"]
        ELSE run.clarifications[q]]]

\* wait_for_ready marks the ACTION clarifications of the current step resolved
AutoResolved(run) ==
  [run EXCEPT !.clarifications =
     [q \in 1 .. Len(run.clarifications) |->
        IF q \in StepClarPos(run) /\ run.clarifications[q].category = CatAction
        THEN [run.clarifications[q] EXCEPT !.resolved = TRUE, !.response = "complete"]
        ELSE run.clarifications[q]]]

\* The loop of wait_for_ready after time.sleep: the readiness check from the
\* current step; if it reports nothing, the ACTION clarifications of the current
\* step are marked resolved and, with nothing outstanding, the run is set
\* READY_TO_RESUME and saved.
WaitWake ==
  /\ pc = "sleep"
  /\ polled' = NoPoll
  /\ UNCHANGED <<ops, cfgVars, histVars, mem, phase, loopVars, todo, wctx, wpar, tries,
                 interval, elapsed, polls, result>>
  /\ pc' = "wait"
  /\ \E unready \in SUBSET ToolsFrom(plan, wrun.current_step_index) :
       LET ready_clarifications ==
             CheckRemainingToolReadiness(plan, wrun.current_step_index, unready)
           marked == AutoResolved(wrun)
       IN /\ ev' = <<<<"ready_check",
                        IF ready_clarifications = <<>> THEN "ready" ELSE "not_ready">>>>
          /\ IF ready_clarifications # <<>>
             THEN UNCHANGED <<store, wrun>>
             ELSE IF OutstandingPos(marked) = {}
             THEN /\ wrun' = [marked EXCEPT !.state = READY_TO_RESUME]
                  /\ store' = wrun'
             ELSE /\ wrun' = marked
                  /\ UNCHANGED store

\* ------------------------------------- resolve_clarification, error_clarification
\* resolve_clarification(clarification, response) called by the caller, or by a
\* handler answering later, on the run loaded from the store
ResolveClarification ==
  /\ pc \in {"idle", "sleep"}
  /\ polled' = NoPoll
  /\ ApiCall
  /\ UNCHANGED <<cfgVars, mem, pc, phase, loopVars, todo, waitVars>>
  /\ IF pc = "idle"
     THEN calls' = <<>> /\ flags' = {} /\ start' = NoStart
     ELSE UNCHANGED histVars
  /\ \E id \in ClarIds :
       IF MatchedPos(store, id) = 0
       THEN /\ result' = IF pc = "idle" THEN Result("resolve", Unmatched) ELSE result
            /\ ev' = <<<<"resolve", "unmatched", id>>>>
            /\ UNCHANGED store
       ELSE /\ result' = IF pc = "idle" THEN Result("resolve", Returned) ELSE result
            /\ ev' = <<<<"resolve", id>>>>
            /\ store' = ResolveIn(store, id, "user")

\* error_clarification(clarification, error), likewise
ErrorClarification ==
  /\ pc = "idle"
  /\ polled' = NoPoll
  /\ ApiCall
  /\ ev' = <<>>
  /\ UNCHANGED <<cfgVars, mem, pc, phase, loopVars, todo, waitVars>>
  /\ calls' = <<>>
  /\ flags' = {}
  /\ start' = NoStart
  /\ result' = Result("error", Returned)
  /\ store' = ErrorIn(store)

\* ------------------------------------------------------------ the step loop
\* The values the introspection agent's module gives the sentinels and the
\* outcome _get_last_executed_step_output compares with
SKIPPED_OUTPUT == "skipped"
COMPLETED_OUTPUT == "completed"
SKIP_OUTCOME == "SKIP"

\* Variants of SetStepOutput: one that also makes the output the final output,
\* one that records nothing, one that drops what the other steps have recorded.
SetStepOutputAsFinal(run, i, output) ==
  [run EXCEPT !.step_outputs[i] = output, !.final_output = output]
SetStepOutputDropped(run, i, output) == run
SetStepOutputAlone(run, i, output) ==
  [run EXCEPT !.step_outputs = [k \in DOMAIN run.step_outputs |->
                                  IF k = i THEN output ELSE NoOutput]]

\* _set_step_output: the output is recorded under the step's key and the run saved
SetStepOutput(run, i, output) == [run EXCEPT !.step_outputs[i] = output]

\* _get_last_executed_step_output: from the current step index down, the first
\* step that has an output whose value is not the SKIP outcome; NoOutput for None
LastExecutedCandidates(p, run) ==
  {i \in 0 .. run.current_step_index :
     /\ i < Len(p)
     /\ run.step_outputs[i] # NoOutput
     /\ run.step_outputs[i].kind # SKIP_OUTCOME}

GetLastExecutedStepOutput(p, run) ==
  LET S == LastExecutedCandidates(p, run) IN
  IF S = {} THEN NoOutput
  ELSE run.step_outputs[CHOOSE i \in S : \A j \in S : j <= i]

\* A variant of GetFinalOutput in which a failure of the summarizer leaves no
\* final output
GetFinalOutputUnlessFailed(step_output, summarized) ==
  IF summarized THEN Out(step_output.kind, step_output.step, TRUE) ELSE NoOutput

\* _get_final_output: the value of the step output, with the summarizer's summary
\* unless the summarizer failed
GetFinalOutput(step_output, summarized) ==
  Out(step_output.kind, step_output.step, summarized)

\* A variant of WithFinalOutput that assigns nothing
WithFinalOutputNever(run, last_output, summarized) == run

\* the final output _execute_plan_run and _handle_introspection_outcome assign
\* when last_executed_step_output is set
WithFinalOutput(run, last_output, summarized) ==
  IF last_output # NoOutput
  THEN [run EXCEPT !.final_output = GetFinalOutput(last_output, summarized)]
  ELSE run

\* A variant of AfterPlanRunEv: after_plan_run is called whatever the final output
AfterPlanRunEvAlways(run) == <<<<"after_plan_run", "">>>>

\* after_plan_run is called if the run has a final output
AfterPlanRunEv(run) ==
  IF run.final_output # NoOutput THEN <<<<"after_plan_run", "">>>> ELSE <<>>

\* A variant of FailStep that leaves the final output unset
FailStepNoFinal(run, i) ==
  [SetStepOutput(run, i, Out("err", i, FALSE)) EXCEPT !.state = FAILED]

\* The except branch of the step loop: the error is recorded as the step's output
\* (and saved), then as the final output, and the run is set FAILED (and saved).
FailStep(run, i) ==
  [SetStepOutput(run, i, Out("err", i, FALSE))
     EXCEPT !.final_output = Out("err", i, FALSE), !.state = FAILED]

\* A variant of LoopStart: the loop starts over from the first step
LoopStartZero(run) == 0

\* Where the step loop of _execute_plan_run starts:
\* for index in range(plan_run.current_step_index, len(plan.steps))
LoopStart(run) == run.current_step_index

\* The head of the loop of execute_plan_run_and_handle_clarifications and, for a
\* run that is neither COMPLETE nor FAILED, _execute_plan_run up to its step
\* loop: IN_PROGRESS is set and saved, before_plan_run is called at index 0.
ExecLoop ==
  /\ pc = "exec"
  /\ polled' = NoPoll
  /\ UNCHANGED <<ops, cfgVars, histVars, waitVars, todo>>
  /\ IF mem.state \in TerminalStates
     THEN /\ EndCall("resume", Returned)
          /\ ev' = <<>>
          /\ UNCHANGED store
     ELSE LET run == [mem EXCEPT !.state = IN_PROGRESS] IN
          /\ store' = run
          /\ mem' = run
          /\ ev' = IF run.current_step_index = 0
                   THEN <<<<"before_plan_run", "">>>> ELSE <<>>
          /\ last' = GetLastExecutedStepOutput(plan, run)
          /\ index' = LoopStart(run)
          /\ pc' = "step"
          /\ UNCHANGED <<phase, result>>

\* A variant of IntrospectionOutcomes that asks the introspection agent for
\* every step
IntrospectionOutcomesAlways(step) ==
  {[consulted |-> TRUE, outcome |-> o] : o \in {"CONTINUE", "SKIP", "COMPLETE"}}

\* _handle_introspection_outcome: a step without a condition continues and the
\* introspection agent is not asked; for a step with one the agent answers
IntrospectionOutcomes(step) ==
  IF step.condition
  THEN {[consulted |-> TRUE, outcome |-> o] : o \in {"CONTINUE", "SKIP", "COMPLETE"}}
  ELSE {[consulted |-> FALSE, outcome |-> "CONTINUE"]}

\* A variant of AtStep that leaves the run's current step index as it is
AtStepKept(run, i) == run

\* The head of the step loop's body: plan_run.current_step_index = index
AtStep(run, i) == [run EXCEPT !.current_step_index = i]

\* One pass of the body of the step loop of _execute_plan_run, for step index.
Step ==
  /\ pc = "step"
  /\ index < Len(plan)
  /\ UNCHANGED <<ops, cfgVars, start>>
  /\ LET step == plan[index + 1]
         run0 == AtStep(mem, index)
     IN \E intro \in IntrospectionOutcomes(step) :
        LET outcome == intro.outcome
            introEv == IF intro.consulted THEN <<<<"introspection", outcome>>>> ELSE <<>>
        IN
        CASE outcome = "SKIP" ->
               LET run1 == SetStepOutput(run0, index, Out(SKIPPED_OUTPUT, index, TRUE)) IN
               /\ store' = run1
               /\ mem' = run1
               /\ index' = index + 1
               /\ ev' = introEv
               /\ polled' = NoPoll
               /\ UNCHANGED <<pc, phase, last, todo, waitVars, calls, flags, result>>
          [] outcome = "COMPLETE" ->
               \E summarized \in BOOLEAN :
                 LET run1 == SetStepOutput(run0, index, Out(COMPLETED_OUTPUT, index, TRUE))
                     run2 == [WithFinalOutput(run1, last, summarized)
                                EXCEPT !.state = COMPLETE]
                 IN /\ store' = run2
                    /\ ev' = introEv \o AfterPlanRunEv(run2)
                    /\ polled' = NoPoll
                    /\ UNCHANGED <<calls, flags>>
                    /\ AfterRun(run2, "execute")
          [] OTHER ->
               \E hook \in (IF StepClarPos(run0) = {} THEN {"SKIP", "CONTINUE"}
                            ELSE {"NOT_CALLED"}) :
                 LET hookEv == IF hook = "NOT_CALLED" THEN <<>>
                               ELSE <<<<"before_step_execution", hook>>>> IN
                 IF hook = "SKIP"
                 THEN /\ mem' = run0
                      /\ index' = index + 1
                      /\ ev' = introEv \o hookEv
                      /\ polled' = NoPoll
                      /\ flags' = flags \cup {"bypass"}
                      /\ UNCHANGED <<store, pc, phase, last, todo, waitVars, calls, result>>
                 ELSE
                 /\ Len(calls) < MaxCalls
                 /\ calls' = Append(calls, index)
                 /\ \E agent \in AgentOutcomes(step.tool_id) :
                    LET agentEv == introEv \o hookEv \o <<<<"agent", agent.kind>>>> IN
                    CASE agent.kind = "err" ->
                           LET run2 == FailStep(run0, index)
                           IN /\ store' = run2
                              /\ polled' = NoPoll
                              /\ ev' = agentEv \o <<<<"after_step_execution", "err">>,
                                                    <<"after_plan_run", "">>>>
                              /\ flags' = flags \cup {"err"}
                              /\ AfterRun(run2, "execute")
                      [] agent.kind = "val" ->
                           LET run1 == SetStepOutput(run0, index, Out("val", index, FALSE)) IN
                           /\ store' = run1
                           /\ polled' = NoPoll
                           /\ mem' = run1
                           /\ last' = Out("val", index, FALSE)
                           /\ index' = index + 1
                           /\ ev' = agentEv \o <<<<"after_step_execution", "val">>>>
                           /\ UNCHANGED <<pc, phase, todo, waitVars, flags, result>>
                      [] OTHER ->
                           LET run1 == SetStepOutput(run0, index, Out("clar", index, FALSE))
                               new_clarifications ==
                                 [q \in 1 .. Len(agent.clars) |->
                                    [NewClarification(agent.clars[q]) EXCEPT !.step = index]]
                               closed ==
                                 /\ Len(new_clarifications) = 1
                                 /\ IsRemote(step.tool_id)
                                 /\ new_clarifications[1].category = CatAction
                               from == IF closed THEN index ELSE index + 1
                           IN \E unready \in SUBSET ToolsFrom(plan, from) :
                                LET gate == CheckRemainingToolReadiness(plan, from, unready)
                                    combined_clarifications ==
                                      IF closed THEN gate ELSE new_clarifications \o gate
                                    run2 == RaiseClarifications(run1, {},
                                                                combined_clarifications)
                                IN /\ Len(run2.clarifications) <= MaxClars
                                   /\ store' = run2
                                   /\ polled' = Poll(from, unready)
                                   /\ ev' = agentEv \o <<<<"clarifications",
                                                         ClarsName(agent.clars)>>>>
                                   /\ flags' = flags \cup {"clar"}
                                   /\ AfterRun(run2, "execute")

\* _execute_plan_run after its step loop: the final output, COMPLETE, after_plan_run
CompleteRun ==
  /\ pc = "step"
  /\ polled' = NoPoll
  /\ index >= Len(plan)
  /\ UNCHANGED <<ops, cfgVars, histVars>>
  /\ \E summarized \in BOOLEAN :
       LET run == [WithFinalOutput(mem, last, summarized) EXCEPT !.state = COMPLETE] IN
       /\ store' = run
       /\ ev' = AfterPlanRunEv(run)
       /\ AfterRun(run, "execute")

\* A variant of Interrupt: the interruption always leaves the call
InterruptUncaught ==
  /\ pc # "idle"
  /\ polled' = NoPoll
  /\ ev' = <<>>
  /\ UNCHANGED <<ops, cfgVars, calls, start, store>>
  /\ flags' = flags \cup {"interrupt"}
  /\ EndCall(result.op, "KeyboardInterrupt")

\* ------------------------------------------------------ interruption, crash
\* KeyboardInterrupt: inside the try of execute_plan_run_and_handle_clarifications
\* the run is set FAILED, saved and returned; elsewhere it leaves the call.
Interrupt ==
  /\ pc # "idle"
  /\ polled' = NoPoll
  /\ ev' = <<>>
  /\ UNCHANGED <<ops, cfgVars, calls, start>>
  /\ flags' = flags \cup {"interrupt"}
  /\ IF phase = "execute"
     THEN /\ store' = [mem EXCEPT !.state = FAILED]
          /\ EndCall("resume", Returned)
     ELSE /\ UNCHANGED store
          /\ EndCall(result.op, "KeyboardInterrupt")

\* The process dies during a call: what the store holds is what remains.
Crash ==
  /\ pc # "idle"
  /\ polled' = NoPoll
  /\ ev' = <<>>
  /\ UNCHANGED <<ops, cfgVars, histVars, store>>
  /\ EndCall(result.op, "crashed")

Next ==
  \/ Resume
  \/ HandleClarification
  \/ WaitForReady
  \/ WaitLoop
  \/ WaitWake
  \/ ResolveClarification
  \/ ErrorClarification
  \/ ExecLoop
  \/ Step
  \/ CompleteRun
  \/ Interrupt
  \/ Crash

Spec == Init /\ [][Next]_vars

\* _check_remaining_tool_readiness on its own: any plan of up to MaxSteps steps
\* over two local tools, two remote tools and steps without a tool, checked
\* from any index with any answers of the tools.
GateTools == {"T1", "T2", "portia:R1", "portia:R2", NoTool}
GatePlans ==
  UNION {[1 .. n -> {StepOf(t, FALSE) : t \in GateTools}] : n \in 0 .. MaxSteps}

GateInit ==
  /\ plan \in GatePlans
  /\ handler = FALSE
  /\ store = NewPlanRun(plan)
  /\ mem = NoRun
  /\ pc = "idle"
  /\ phase = "none"
  /\ index = 0
  /\ last = NoOutput
  /\ todo = <<>>
  /\ wrun = NoRun
  /\ wctx = "none"
  /\ wpar = NoWaitParams
  /\ tries = 0
  /\ interval = 0
  /\ elapsed = 0
  /\ polls = 0
  /\ calls = <<>>
  /\ flags = {}
  /\ start = NoStart
  /\ result = Result("none", "none")
  /\ ops = 0
  /\ polled = NoPoll
  /\ ev = <<>>
  /\ storage = <<>>
  /\ held = <<>>
  /\ actor = "none"
  /\ loaded = <<>>

\* one readiness check from index i; todo keeps the ids of what it returned
GateCheck ==
  /\ \E i \in 0 .. Len(plan), unready \in SUBSET ToolsFrom(plan, 0) :
       /\ polled' = Poll(i, unready)
       /\ todo' = LET r == CheckRemainingToolReadiness(plan, i, unready)
                  IN [q \in 1 .. Len(r) |-> r[q].id]
  /\ UNCHANGED <<cfgVars, store, mem, pc, phase, index, last, wrun, wctx, wpar,
                 tries, interval, elapsed, polls, calls, flags, start, result, ops, ev>>

GateNext == GateCheck

GateSpec == GateInit /\ [][GateNext]_vars

\* ------------------------------------------------------------- two runs
\* Two runs of one plan, each driven by its own caller: Resume (its state check,
\* readiness check and step loop, one save at a time), resolve_clarification,
\* error_clarification and one poll of wait_for_ready, in any interleaving. No
\* handler and no hook is configured, and no step has a condition. The caller of
\* a run makes one call at a time: while its Resume executes the run it makes no
\* other call for it.
RunIds == {"run1", "run2"}
TwoRunPlan == <<StepOf("T1", FALSE), StepOf(NoTool, FALSE)>>
NotHeld == [run |-> NoRun, index |-> 0, last |-> NoOutput]

\* storage.save_plan_run(plan_run): the record kept under plan_run.id is replaced
SavePlanRun(st, id, run) == [st EXCEPT ![id] = run]

\* A variant of SetPlanRunState that sets the state of every run in the store
SetPlanRunStateOfAll(st, id, run, state) ==
  [r \in DOMAIN st |-> IF r = id THEN [run EXCEPT !.state = state]
                       ELSE [st[r] EXCEPT !.state = state]]

\* _set_plan_run_state(plan_run, state)
SetPlanRunState(st, id, run, state) == SavePlanRun(st, id, [run EXCEPT !.state = state])

TwoRunInit ==
  /\ plan = TwoRunPlan
  /\ handler = FALSE
  /\ store = NewPlanRun(plan)
  /\ mem = NoRun
  /\ pc = "idle"
  /\ phase = "none"
  /\ index = 0
  /\ last = NoOutput
  /\ todo = <<>>
  /\ wrun = NoRun
  /\ wctx = "none"
  /\ wpar = NoWaitParams
  /\ tries = 0
  /\ interval = 0
  /\ elapsed = 0
  /\ polls = 0
  /\ calls = <<>>
  /\ flags = {}
  /\ start = NoStart
  /\ result = Result("none", "none")
  /\ ops = 0
  /\ polled = NoPoll
  /\ ev = <<>>
  /\ storage = [r \in RunIds |-> NewPlanRun(plan)]
  /\ held = [r \in RunIds |-> NotHeld]
  /\ actor = "none"
  /\ loaded = <<>>

singleVars ==
  <<plan, handler, store, mem, pc, phase, index, last, todo, wrun, wctx, wpar, tries,
    interval, elapsed, polls, calls, flags, start, result, ops, polled, ev, loaded>>

\* _resume(plan_run_id = r) up to the step loop: the run is loaded, its state
\* checked, the readiness check made; with clarifications it is saved
\* NEED_CLARIFICATION and returned, else saved IN_PROGRESS and the loop entered
ResumeRun(r) ==
  /\ held[r] = NotHeld
  /\ storage[r].state \in ResumableStates
  /\ actor' = r
  /\ UNCHANGED singleVars
  /\ \E unready \in SUBSET ToolsFrom(plan, storage[r].current_step_index) :
       LET plan_run == storage[r]
           outstanding_clarifications == OutstandingPos(plan_run)
           ready_clarifications ==
             CheckRemainingToolReadiness(plan, plan_run.current_step_index, unready)
           raised == RaiseClarifications(plan_run, outstanding_clarifications,
                                         ready_clarifications)
       IN IF outstanding_clarifications # {} \/ ready_clarifications # <<>>
          THEN /\ Len(raised.clarifications) <= MaxClars
               /\ storage' = SetPlanRunState(storage, r, raised, NEED_CLARIFICATION)
               /\ IF OutstandingPos(raised) # {}
                  THEN UNCHANGED held
                  ELSE held' = [held EXCEPT ![r] =
                                  [run |-> raised, index |-> LoopStart(raised),
                                   last |-> NoOutput]]
          ELSE /\ storage' = storage
               /\ held' = [held EXCEPT ![r] =
                             [run |-> plan_run, index |-> LoopStart(plan_run),
                              last |-> NoOutput]]

\* _execute_plan_run up to its loop: IN_PROGRESS is saved
BeginRun(r) ==
  /\ held[r] # NotHeld
  /\ held[r].run.state \notin {IN_PROGRESS, COMPLETE, FAILED}
  /\ actor' = r
  /\ UNCHANGED singleVars
  /\ LET run == [held[r].run EXCEPT !.state = IN_PROGRESS] IN
     /\ storage' = SetPlanRunState(storage, r, held[r].run, IN_PROGRESS)
     /\ held' = [held EXCEPT ![r] = [run |-> run, index |-> LoopStart(run),
                                     last |-> GetLastExecutedStepOutput(plan, run)]]

\* one pass of the step loop of the Resume call that executes run r
StepRun(r) ==
  /\ held[r] # NotHeld
  /\ held[r].run.state = IN_PROGRESS
  /\ held[r].index < Len(plan)
  /\ actor' = r
  /\ UNCHANGED singleVars
  /\ LET i == held[r].index
         run0 == AtStep(held[r].run, i)
     IN \E agent \in AgentOutcomes(plan[i + 1].tool_id) :
          CASE agent.kind = "err" ->
                 /\ storage' = SetPlanRunState(storage, r, FailStep(run0, i), FAILED)
                 /\ held' = [held EXCEPT ![r] = NotHeld]
            [] agent.kind = "val" ->
                 LET run1 == SetStepOutput(run0, i, Out("val", i, FALSE)) IN
                 /\ storage' = SavePlanRun(storage, r, run1)
                 /\ held' = [held EXCEPT ![r] = [run |-> run1, index |-> i + 1,
                                                 last |-> Out("val", i, FALSE)]]
            [] OTHER ->
                 \E unready \in SUBSET ToolsFrom(plan, i + 1) :
                   LET run1 == SetStepOutput(run0, i, Out("clar", i, FALSE))
                       new_clarifications ==
                         [q \in 1 .. Len(agent.clars) |->
                            [NewClarification(agent.clars[q]) EXCEPT !.step = i]]
                       run2 == RaiseClarifications(
                                 run1, {},
                                 new_clarifications
                                   \o CheckRemainingToolReadiness(plan, i + 1, unready))
                   IN /\ Len(run2.clarifications) <= MaxClars
                      /\ storage' = SetPlanRunState(storage, r, run2, NEED_CLARIFICATION)
                      /\ held' = [held EXCEPT ![r] = NotHeld]

\* _execute_plan_run after its loop: the final output, COMPLETE
CompleteRunOf(r) ==
  /\ held[r] # NotHeld
  /\ held[r].run.state = IN_PROGRESS
  /\ held[r].index >= Len(plan)
  /\ actor' = r
  /\ UNCHANGED singleVars
  /\ storage' = SetPlanRunState(storage, r,
                                WithFinalOutput(held[r].run, held[r].last, FALSE), COMPLETE)
  /\ held' = [held EXCEPT ![r] = NotHeld]

\* resolve_clarification(clarification, response) for a clarification of run r
\* (the run is loaded by clarification.plan_run_id)
ResolveOf(r) ==
  /\ held[r] = NotHeld
  /\ actor' = r
  /\ UNCHANGED <<singleVars, held>>
  /\ \E id \in ClarIdsOf(storage[r]) :
       storage' = SavePlanRun(storage, r, ResolveIn(storage[r], id, "user"))

\* error_clarification(clarification, error) for a clarification of run r
ErrorOf(r) ==
  /\ held[r] = NotHeld
  /\ storage[r].clarifications # <<>>
  /\ actor' = r
  /\ UNCHANGED <<singleVars, held>>
  /\ storage' = SetPlanRunState(storage, r, storage[r], FAILED)

\* wait_for_ready(run r): one pass of its loop that finds the tools ready
WaitOf(r) ==
  /\ held[r] = NotHeld
  /\ storage[r].state = NEED_CLARIFICATION
  /\ actor' = r
  /\ UNCHANGED <<singleVars, held>>
  /\ LET marked == AutoResolved(storage[r]) IN
     IF OutstandingPos(marked) = {}
     THEN storage' = SetPlanRunState(storage, r, marked, READY_TO_RESUME)
     ELSE UNCHANGED storage

TwoRunNext ==
  \/ \E r \in RunIds : ResumeRun(r)
  \/ \E r \in RunIds : BeginRun(r)
  \/ \E r \in RunIds : StepRun(r)
  \/ \E r \in RunIds : CompleteRunOf(r)
  \/ \E r \in RunIds : ResolveOf(r)
  \/ \E r \in RunIds : ErrorOf(r)
  \/ \E r \in RunIds : WaitOf(r)

TwoRunSpec == TwoRunInit /\ [][TwoRunNext]_vars

\* ------------------------------------------- overlapping resolve calls
\* Two callers (two threads of the caller, or a clarification handler answering
\* from two threads) call resolve_clarification for clarifications of one paused
\* run. A call loads the run from the store (line 745), marks the clarification
\* in the object it loaded and saves that object (lines 747-768); between its
\* load and its save the other caller's call may load and save.
Callers == {"a", "b"}
ResolvePlan == ChainPlan(2)
NoLoad == [run |-> NoRun, id |-> "none"]

\* The paused runs the calls start from: paused by _resume for tools that are
\* not ready, or paused at step 0 for what its agent returned and what the
\* readiness check from step 1 reported.
PausedRuns ==
  LET new == NewPlanRun(ResolvePlan)
      atStep == SetStepOutput(AtStep(new, 0), 0, Out("clar", 0, FALSE))
      byResume ==
        {RaiseClarifications(new, {}, CheckRemainingToolReadiness(ResolvePlan, 0, unready)) :
           unready \in SUBSET ToolsFrom(ResolvePlan, 0) \ {{}}}
      byStep ==
        {RaiseClarifications(
           atStep, {},
           [q \in 1 .. Len(cs) |-> NewClarification(cs[q])]
             \o CheckRemainingToolReadiness(ResolvePlan, 1, unready)) :
           cs \in {<<"T1">>, <<InputClar>>, <<"T1", InputClar>>},
           unready \in SUBSET ToolsFrom(ResolvePlan, 1)}
  IN {run \in byResume \cup byStep : Len(run.clarifications) <= MaxClars}

ResolveInit ==
  /\ plan = ResolvePlan
  /\ handler = FALSE
  /\ store \in PausedRuns
  /\ mem = NoRun
  /\ pc = "idle"
  /\ phase = "none"
  /\ index = 0
  /\ last = NoOutput
  /\ todo = <<>>
  /\ wrun = NoRun
  /\ wctx = "none"
  /\ wpar = NoWaitParams
  /\ tries = 0
  /\ interval = 0
  /\ elapsed = 0
  /\ polls = 0
  /\ calls = <<>>
  /\ flags = {}
  /\ start = NoStart
  /\ result = Result("none", "none")
  /\ ops = 0
  /\ polled = NoPoll
  /\ ev = <<>>
  /\ storage = <<>>
  /\ held = <<>>
  /\ actor = "none"
  /\ loaded = [c \in Callers |-> NoLoad]

resolveUnchanged ==
  <<plan, handler, mem, pc, phase, index, last, todo, wrun, wctx, wpar, tries,
    interval, elapsed, polls, calls, flags, start, result, polled, storage, held>>

\* resolve_clarification(clarification, response) by caller c up to the load:
\* plan_run = self.storage.get_plan_run(clarification.plan_run_id)
LoadToResolve(c) ==
  /\ loaded[c] = NoLoad
  /\ ApiCall
  /\ actor' = c
  /\ UNCHANGED <<resolveUnchanged, store, ev>>
  /\ \E q \in OutstandingPos(store) :
       loaded' = [loaded EXCEPT ![c] = [run |-> store, id |-> store.clarifications[q].id]]

\* the rest of the call: the clarification is marked in the loaded object,
\* READY_TO_RESUME is set if that object has nothing outstanding, the object is
\* saved; ev keeps the calls that have returned
SaveResolved(c) ==
  /\ loaded[c] # NoLoad
  /\ actor' = c
  /\ UNCHANGED <<resolveUnchanged, ops>>
  /\ store' = ResolveIn(loaded[c].run, loaded[c].id, "user")
  /\ ev' = Append(ev, <<"resolve", loaded[c].id>>)
  /\ loaded' = [loaded EXCEPT ![c] = NoLoad]

ResolveNext ==
  \/ \E c \in Callers : LoadToResolve(c)
  \/ \E c \in Callers : SaveResolved(c)

ResolveSpec == ResolveInit /\ [][ResolveNext]_vars

\* The thread that runs wait_for_ready keeps running: the loop goes on to its
\* next iteration, and time.sleep returns.
FairSpec == Spec /\ WF_vars(WaitLoop) /\ WF_vars(WaitWake)

TypeOK ==
  /\ store.state \in PlanRunState
  /\ pc \in {"idle", "handle", "wait", "sleep", "exec", "step"}

\* ================================================================== claims
\* what the claims speak of
NoConditions == \A k \in 1 .. Len(plan) : ~plan[k].condition
ResumeReturned == pc = "idle" /\ result = Result("resume", Returned)
HasEv(e) == \E q \in 1 .. Len(ev) : ev[q] = e
FirstSteps(n) == [k \in 1 .. n |-> k - 1]
\* this step is a call of Resume / of resolve_clarification
ResumeCalled == pc = "idle" /\ ops' = ops + 1 /\ start' # NoStart
ResolveCalled == ops' = ops + 1 /\ ev' # <<>> /\ ev'[1][1] = "resolve"
\* this step invokes the execution agent, for step AgentStep
AgentInvoked == Len(calls') = Len(calls) + 1
AgentStep == calls'[Len(calls')]
\* a first Resume that met no guard, no bypass, no unready tool, no
\* clarification, no failure and no interrupt has returned
CleanFirstResume ==
  /\ ResumeReturned
  /\ start.state = NOT_STARTED
  /\ NoConditions
  /\ store.clarifications = <<>>

\* C1: Resume on a COMPLETE or FAILED run always fails with the invalid-state
\* error, invokes no agent, and leaves the persisted run (state, step outputs,
\* final output, clarifications, current step index) as it was.
C1_ResumeOnTerminalFails ==
  [][(ResumeCalled /\ store.state \in {COMPLETE, FAILED})
       => /\ result' = Result("resume", InvalidState)
          /\ pc' = "idle"
          /\ calls' = <<>>
          /\ store' = store]_vars
C1_Witness ==
  /\ Len(plan) = 1
  /\ result = Result("resume", InvalidState)
  /\ start.state = COMPLETE
  /\ store.state = COMPLETE
  /\ store.step_outputs[0] = Out("val", 0, FALSE)

\* C2: once the persisted run is COMPLETE or FAILED, no later operation (Resume,
\* resolve_clarification, error_clarification, wait_for_ready, clarification
\* handling, an interrupt) changes its state.
C2_TerminalStateKept ==
  [][store.state \in {COMPLETE, FAILED} => store'.state = store.state]_vars

\* C3: one Resume of a NOT_STARTED run of N steps (no guards, no hook bypass,
\* every tool ready, no clarification, no failure, no interrupt) invokes the
\* agent exactly N times, once per step in index order, and returns the run
\* COMPLETE with the N step outputs recorded.
C3_HappyPath ==
  (CleanFirstResume /\ flags = {})
    => /\ calls = FirstSteps(Len(plan))
       /\ store.state = COMPLETE
       /\ \A k \in StepIdx(plan) : store.step_outputs[k] = Out("val", k, FALSE)
C3_Witness ==
  /\ CleanFirstResume
  /\ flags = {}
  /\ Len(plan) = 3
  /\ calls = <<0, 1, 2>>
  /\ store.state = COMPLETE

\* C4: if the agent fails at step k of a first Resume in which steps 0..k-1
\* succeeded without clarifications, the run is returned (not raised) FAILED,
\* the error is step k's output and the final output, the earlier outputs are
\* kept, and exactly k+1 agent invocations have happened: none after step k.
C4_AgentFailure ==
  (CleanFirstResume /\ flags = {"err"})
    => /\ calls # <<>>
       /\ LET k == calls[Len(calls)] IN
          /\ calls = FirstSteps(k + 1)
          /\ store.state = FAILED
          /\ store.step_outputs[k] = Out("err", k, FALSE)
          /\ store.final_output = Out("err", k, FALSE)
          /\ \A j \in StepIdx(plan) :
               /\ j < k => store.step_outputs[j] = Out("val", j, FALSE)
               /\ j > k => store.step_outputs[j] = NoOutput
C4_Witness ==
  /\ CleanFirstResume
  /\ flags = {"err"}
  /\ Len(plan) = 3
  /\ calls = <<0, 1>>
  /\ store.state = FAILED
  /\ store.final_output = Out("err", 1, FALSE)

\* C5, as stated: Resume never invokes the agent for a step whose output is
\* already recorded in the persisted run.
C5_NoAgentForRecordedStep ==
  [][AgentInvoked => store.step_outputs[AgentStep] = NoOutput]_vars
\* C5, amended: Resume never invokes the agent for a step below the persisted
\* current step index; the step at that index is run again even if the
\* persisted run holds an output for it.
C5_NoAgentBelowPersistedIndex ==
  [][AgentInvoked => AgentStep >= store.current_step_index]_vars
C5_Witness ==
  /\ Len(plan) = 2
  /\ result.op = "resume"
  /\ start.index = 1
  /\ calls = <<1>>
  /\ store.step_outputs[0] = Out("val", 0, FALSE)
  /\ store.step_outputs[1] = Out("val", 1, FALSE)
  /\ store.clarifications # <<>>

\* C6: when a run is paused because step k raised a clarification the persisted
\* current step index is k; from then on the persisted index never decreases
\* and the only output ever written is that of the step being executed, which
\* is not below the persisted index: the recorded outputs of the steps below k
\* stay as they are over every later resolve_clarification, wait_for_ready and
\* Resume.
C6_PausedStepKept ==
  /\ [](HasEv(<<"agent", "clar">>)
          => /\ calls # <<>>
             /\ store.current_step_index = calls[Len(calls)]
             /\ store.state = NEED_CLARIFICATION)
  /\ [][/\ store'.current_step_index >= store.current_step_index
        /\ \A j \in StepIdx(plan) :
             store'.step_outputs[j] # store.step_outputs[j]
               => (pc = "step" /\ j = index /\ j >= store.current_step_index)]_vars
C6_Witness ==
  /\ Len(plan) = 2
  /\ ResumeReturned
  /\ start.state = READY_TO_RESUME
  /\ start.index = 1
  /\ store.state = COMPLETE
  /\ Len(store.clarifications) = 1
  /\ store.clarifications[1].step = 1
  /\ store.clarifications[1].resolved
  /\ store.step_outputs[0] = Out("val", 0, FALSE)

\* C7: resolving the only unresolved clarification of a NEED_CLARIFICATION run
\* moves the persisted run to READY_TO_RESUME; the next Resume starts from the
\* same current step index and invokes no agent for a step with a smaller index.
C7_ResolveLastThenResume ==
  [][/\ (/\ ResolveCalled
         /\ store.state = NEED_CLARIFICATION
         /\ \E q \in OutstandingPos(store) :
              /\ OutstandingPos(store) = {q}
              /\ ev'[1][2] = store.clarifications[q].id)
          => (store'.state = READY_TO_RESUME /\ OutstandingPos(store') = {})
     /\ (ResumeCalled /\ store.state = READY_TO_RESUME)
          => start'.index = store.current_step_index
     /\ AgentInvoked => AgentStep >= start.index]_vars

\* C8: no two entries of a run's clarification list have the same id.
C8_ClarificationIdsDistinct ==
  \A p, q \in 1 .. Len(store.clarifications) :
    p # q => store.clarifications[p].id # store.clarifications[q].id

\* C9, as stated: Resume raises only for an invalid starting state, never for a
\* pause, with or without a clarification handler.
C9_RaisesOnlyForInvalidStart ==
  (result.op = "resume" /\ IsRaise(result.outcome))
    => start.state \in {COMPLETE, FAILED}
\* C9, amended: without a clarification handler Resume raises only for an
\* invalid starting state and returns a paused run; with a handler it also
\* raises when the wait for the clarifications runs out of retries.
C9_RaisesForInvalidStartOrWaitTimeout ==
  (result.op = "resume" /\ IsRaise(result.outcome))
    => \/ start.state \in {COMPLETE, FAILED} /\ result.outcome = InvalidState
       \/ handler /\ result.outcome = WaitTimeout
C9_Witness ==
  /\ handler
  /\ result = Result("resume", WaitTimeout)
  /\ start.state = NOT_STARTED

\* The first Resume of the 3-step plan T1, T2, T3 has polled the tools, found
\* T2 alone not ready, and returned.
C10_Scenario ==
  /\ ResumeReturned
  /\ start.state = NOT_STARTED
  /\ plan = ChainPlan(3)
  /\ ~handler
  /\ polled = Poll(0, {"T2"})
\* C10, as stated: that Resume has invoked the agent for step 0 and returns the
\* run in NEED_CLARIFICATION with the clarification recorded at step index 1.
C10_PauseBeforeSecondStep ==
  C10_Scenario
    => /\ calls = <<0>>
       /\ store.state = NEED_CLARIFICATION
       /\ \E q \in OutstandingPos(store) : store.clarifications[q].step = 1
\* C10, amended: that Resume invokes no agent (the initial readiness check covers
\* every step from the current one) and returns the run in NEED_CLARIFICATION
\* with T2's clarification recorded at step index 0, the current step index,
\* and no step output.
C10_PauseBeforeFirstStep ==
  C10_Scenario
    => /\ calls = <<>>
       /\ store.state = NEED_CLARIFICATION
       /\ store.current_step_index = 0
       /\ store.clarifications = <<[NewClarification("T2") EXCEPT !.step = 0]>>
       /\ \A k \in StepIdx(plan) : store.step_outputs[k] = NoOutput
C10_Witness ==
  /\ C10_Scenario
  /\ store.state = NEED_CLARIFICATION
  /\ OutstandingPos(store) = {1}


\* the run is paused for ACTION clarifications alone (what a tool that is not
\* ready reports)
PausedForReadiness(run) ==
  /\ run.state = NEED_CLARIFICATION
  /\ OutstandingPos(run) # {}
  /\ \A q \in OutstandingPos(run) : run.clarifications[q].category = CatAction
\* this step is a poll of wait_for_ready that finds every tool ready
ReadyPoll == pc = "sleep" /\ ev' = <<<<"ready_check", "ready">>>>
\* every clarification of the run has been marked resolved by wait_for_ready
AllAutoResolved(run) ==
  /\ run.clarifications # <<>>
  /\ \A q \in 1 .. Len(run.clarifications) :
       /\ run.clarifications[q].resolved
       /\ run.clarifications[q].response = "complete"

\* C11: for a run paused in NEED_CLARIFICATION for readiness clarifications
\* alone, a poll of wait_for_ready that finds the tools ready leaves the run
\* READY_TO_RESUME with nothing outstanding (and wait_for_ready returns it); a
\* further Resume that meets no guard, bypass, clarification, failure or
\* interrupt, of a run that holds an output for every step below its current
\* index, executes the steps from the current index on and ends COMPLETE with
\* one output stored for every step of the plan.
C11_ReadyAfterWaitThenComplete ==
  /\ [][(ReadyPoll /\ PausedForReadiness(wrun))
          => /\ store'.state = READY_TO_RESUME
             /\ OutstandingPos(store') = {}
             /\ wrun' = store'
             /\ pc' = "wait"]_vars
  /\ []((pc = "wait" /\ wctx = "caller" /\ wrun.state = READY_TO_RESUME)
          => ENABLED WaitLoop)
  /\ []((/\ ResumeReturned
         /\ start.state = READY_TO_RESUME
         /\ NoConditions
         /\ flags = {}
         /\ AllAutoResolved(store)
         /\ \A k \in StepIdx(plan) :
              k < start.index => store.step_outputs[k] # NoOutput)
          => /\ store.state = COMPLETE
             /\ calls = [k \in 1 .. Len(plan) - start.index |-> start.index + k - 1]
             /\ \A k \in StepIdx(plan) :
                  /\ store.step_outputs[k] # NoOutput
                  /\ k >= start.index => store.step_outputs[k] = Out("val", k, FALSE))
C11_Witness ==
  /\ ResumeReturned
  /\ start = [state |-> READY_TO_RESUME, index |-> 0]
  /\ plan = ChainPlan(3)
  /\ flags = {}
  /\ store.clarifications =
       <<[NewClarification("T2") EXCEPT !.step = 0, !.resolved = TRUE,
                                        !.response = "complete"]>>
  /\ store.state = COMPLETE
  /\ calls = <<0, 1, 2>>

\* wait_for_ready is in its loop
Waiting == pc \in {"wait", "sleep"}

\* C12: wait_for_ready always terminates. Every iteration of its loop that goes
\* on to sleep either counts a retry or advances the time waited towards
\* backoff_start_time_seconds, the retries never exceed max_retries, the call
\* ends with the timeout error once they reach it, and so (the thread being
\* scheduled) a wait in progress always comes to an end; it ends by returning
\* only if the run is READY_TO_RESUME, which a gate that reports a
\* clarification on every poll never brings about.
C12_WaitTerminates ==
  /\ [][(pc = "wait" /\ pc' = "sleep")
          => /\ tries' = tries + 1 \/ (tries' = tries /\ elapsed' > elapsed)
             /\ tries' <= wpar.max_retries
             /\ elapsed' <= wpar.backoff_start + 1]_vars
  /\ [][(/\ pc = "wait" /\ wrun.state # READY_TO_RESUME /\ tries >= wpar.max_retries
         /\ "interrupt" \notin flags' /\ result'.outcome # "crashed")
          => (pc' = "idle" /\ result' = Result(WaitOp, WaitTimeout))]_vars
  /\ [][(pc = "wait" /\ wctx = "caller" /\ result' = Result("wait", Returned))
          => wrun.state = READY_TO_RESUME]_vars
  /\ [][(pc = "sleep" /\ ev' = <<<<"ready_check", "not_ready">>>>)
          => (store' = store /\ wrun' = wrun)]_vars
  /\ (Waiting ~> ~Waiting)
C12_Witness ==
  /\ result = Result("wait", WaitTimeout)
  /\ store.state = NEED_CLARIFICATION
  /\ OutstandingPos(store) # {}

\* this step is a call of wait_for_ready by the caller
WaitCalled == pc = "idle" /\ ops' = ops + 1 /\ result'.op = "wait"

\* C13: a wait_for_ready that raises the timeout error has not written the
\* run: the only write of its loop sets READY_TO_RESUME, after which the call
\* returns. The run it leaves is NEED_CLARIFICATION as long as a clarification
\* is outstanding (READY_TO_RESUME only if resolve_clarification has resolved
\* the last one meanwhile), never FAILED; and a later wait_for_ready on it
\* starts its retries afresh, so it returns READY_TO_RESUME once a poll finds
\* the tools ready.
C13_TimeoutLeavesRun ==
  /\ [][(Waiting /\ wctx = "caller" /\ store' # store /\ ~ResolveCalled)
          => (store'.state = READY_TO_RESUME /\ wrun' = store' /\ pc' = "wait")]_vars
  /\ [][result'.outcome = WaitTimeout => (store' = store /\ wrun.state # READY_TO_RESUME)]_vars
  /\ [](result = Result("wait", WaitTimeout)
          => /\ store.state \in {NEED_CLARIFICATION, READY_TO_RESUME}
             /\ OutstandingPos(store) # {} => store.state = NEED_CLARIFICATION)
  /\ [][(WaitCalled /\ result = Result("wait", WaitTimeout)
           /\ store.state = NEED_CLARIFICATION)
          => (pc' = "wait" /\ tries' = 0 /\ elapsed' = 0 /\ wrun' = store)]_vars
C13_Witness ==
  /\ result = Result("wait", WaitTimeout)
  /\ PausedForReadiness(store)
  /\ ops < MaxOps

C15_CompleteHasFinalOutput ==
  store.state = COMPLETE => store.final_output # NoOutput
\* C15, amended: when the step loop completes a run and a last executed step
\* output exists, the final output is set to that output, summarized or (the
\* summarizer having failed) as it is; when none exists (a plan without steps,
\* every step skipped or bypassed, an introspection COMPLETE at the first
\* step) the run is COMPLETE with its final output left as it was, unset.
C15_FinalOutputFromLastStepOutput ==
  [][(pc = "step" /\ store'.state = COMPLETE /\ store.state # COMPLETE)
       => IF last # NoOutput
          THEN store'.final_output \in {GetFinalOutput(last, b) : b \in BOOLEAN}
          ELSE store'.final_output = mem.final_output]_vars
C15_Witness ==
  /\ ResumeReturned
  /\ Len(plan) = 2
  /\ calls = <<0, 1>>
  /\ store.state = COMPLETE
  /\ store.final_output = Out("val", 1, FALSE)
\* a run that has completed without a final output
C15_WitnessUnset ==
  /\ ResumeReturned
  /\ plan = <<>>
  /\ store.state = COMPLETE
  /\ store.final_output = NoOutput

\* C16: once a clarification handler has reported an error (on_error) during a
\* Resume, the persisted run is FAILED and stays FAILED, and the Resume ends by
\* returning the run (unless the process is interrupted or dies).
C16_HandlerErrorFailsRun ==
  "on_error" \in flags
    => /\ store.state = FAILED
       /\ (pc = "idle" /\ result.outcome \notin {"KeyboardInterrupt", "crashed"})
            => result = Result("resume", Returned)
\* a Resume during which the handler reported an error has raised the timeout
\* of wait_for_ready; one has gone on to complete the run
C16_RaisedAfterHandlerError ==
  /\ "on_error" \in flags
  /\ result = Result("resume", WaitTimeout)
  /\ store.state = FAILED
C16_CompletedAfterHandlerError ==
  /\ "on_error" \in flags
  /\ ResumeReturned
  /\ store.state = COMPLETE

\* C17: an interruption that arrives while the step loop is running (anywhere
\* inside the try of execute_plan_run_and_handle_clarifications) sets the run
\* FAILED and saves it, with what the run had recorded, and Resume returns the
\* run; after it the persisted run is FAILED, never IN_PROGRESS.
C17_InterruptFailsRun ==
  /\ [][(phase = "execute" /\ "interrupt" \in flags' /\ "interrupt" \notin flags)
          => /\ store' = [mem EXCEPT !.state = FAILED]
             /\ pc' = "idle"
             /\ result' = Result("resume", Returned)]_vars
  /\ []((pc = "step" /\ mem.state = IN_PROGRESS) => phase = "execute")
  /\ []((result = Result("resume", Returned) /\ "interrupt" \in flags)
          => store.state = FAILED)
C17_Witness ==
  /\ ResumeReturned
  /\ "interrupt" \in flags
  /\ Len(plan) = 3
  /\ calls = <<0>>
  /\ store.state = FAILED
  /\ store.step_outputs[0] = Out("val", 0, FALSE)
  /\ store.step_outputs[1] = NoOutput

\* what Resume's initial readiness check from the current step reports
GateReports(run, p) == CheckRemainingToolReadiness(plan, run.current_step_index, p.unready)
\* this Resume finds the run resumable with a clarification unresolved, or its
\* readiness check reports one
PausedAtStart ==
  /\ ResumeCalled
  /\ store.state \in ResumableStates
  /\ (OutstandingPos(store) # {} \/ GateReports(store, polled') # <<>>)
\* the same, counting of the readiness check's clarifications only those whose
\* id the run does not hold yet
PausedAtStartUnheld ==
  /\ ResumeCalled
  /\ store.state \in ResumableStates
  /\ \/ OutstandingPos(store) # {}
     \/ \E q \in 1 .. Len(GateReports(store, polled')) :
          GateReports(store, polled')[q].id \notin ClarIdsOf(store)
\* the clarifications are stored, the state is NEED_CLARIFICATION, no step
\* output and no index has changed
StoredAtStart ==
  /\ store'.state = NEED_CLARIFICATION
  /\ OutstandingPos(store) \subseteq OutstandingPos(store')
  /\ \A q \in 1 .. Len(GateReports(store, polled')) :
       GateReports(store, polled')[q].id \in ClarIdsOf(store')
  /\ OutstandingPos(store') # {}
  /\ store'.step_outputs = store.step_outputs
  /\ store'.current_step_index = store.current_step_index
  /\ store'.final_output = store.final_output
  /\ calls' = <<>>
\* the call ends while still before execute_plan_run_and_handle_clarifications,
\* not by an interrupt or a crash, with a clarification unresolved and no
\* handler error
EndsBeforeLoop ==
  /\ phase = "prelude"
  /\ pc' = "idle"
  /\ result'.outcome \notin {"KeyboardInterrupt", "crashed"}
  /\ "on_error" \notin flags'
  /\ OutstandingPos(store') # {}

\* C18 as stated: a Resume that finds an unresolved clarification or whose
\* readiness check reports one, and whose handler (if any) does not resolve
\* them, stores them, sets NEED_CLARIFICATION and returns the run, with no
\* agent invoked and step outputs and index as they were.
C18_PausedAtStartReturns ==
  /\ [][(PausedAtStart /\ ~handler)
          => (StoredAtStart /\ pc' = "idle" /\ result' = Result("resume", Returned))]_vars
  /\ [][(PausedAtStart /\ handler) => StoredAtStart]_vars
  /\ [][EndsBeforeLoop => result' = Result("resume", Returned)]_vars
\* C18 as the code has it: the clarifications are stored (those of the readiness
\* check only if the run does not hold their id yet) and, when one is then
\* unresolved, the state is NEED_CLARIFICATION with step outputs and index as
\* they were; without a handler Resume returns at once; with one it hands
\* them to the handler and
\* waits, and until the wait returns a READY_TO_RESUME run with nothing
\* unresolved no agent is invoked and no step output or index changes; a call
\* that ends there with a clarification unresolved has raised the wait's
\* timeout (or the handler's unmatched resolve), it has not returned.
C18_PausedAtStartStoresAndWaits ==
  /\ [][(PausedAtStartUnheld /\ ~handler)
          => (StoredAtStart /\ pc' = "idle" /\ result' = Result("resume", Returned))]_vars
  /\ [][(PausedAtStartUnheld /\ handler)
          => (StoredAtStart /\ pc' = "handle" /\ phase' = "prelude")]_vars
  /\ [][phase = "prelude"
          => /\ calls' = <<>>
             /\ store'.step_outputs = store.step_outputs
             /\ store'.current_step_index = store.current_step_index]_vars
  /\ [][(phase = "prelude" /\ phase' = "execute")
          => (wrun.state = READY_TO_RESUME /\ OutstandingPos(wrun) = {})]_vars
  /\ [][EndsBeforeLoop => result' \in {Result("resume", WaitTimeout),
                                       Result("resume", Unmatched)}]_vars
C18_Witness ==
  /\ ResumeReturned
  /\ ~handler
  /\ Len(plan) = 2
  /\ start = [state |-> NEED_CLARIFICATION, index |-> 1]
  /\ store.state = NEED_CLARIFICATION
  /\ store.current_step_index = 1
  /\ store.step_outputs[0] = Out("val", 0, FALSE)
  /\ OutstandingPos(store) # {}
  /\ calls = <<>>
\* a Resume with a handler that left the clarification unresolved has raised
C18_WitnessTimeout ==
  /\ handler
  /\ result = Result("resume", WaitTimeout)
  /\ "on_error" \notin flags
  /\ store.state = NEED_CLARIFICATION
  /\ OutstandingPos(store) # {}
  /\ calls = <<>>

\* C19: resolve_clarification with a clarification whose id the run does not
\* hold raises InvalidPlanRunStateError and leaves the persisted run (state,
\* clarifications, outputs) as it was; with an id the run holds it does not raise.
C19_UnmatchedResolveFails ==
  [][ResolveCalled
       => IF Len(ev'[1]) = 3
          THEN /\ ev'[1][3] \notin ClarIdsOf(store)
               /\ store' = store
               /\ pc = "idle" => result' = Result("resolve", Unmatched)
          ELSE /\ ev'[1][2] \in ClarIdsOf(store)
               /\ pc = "idle" => result' = Result("resolve", Returned)]_vars
C19_Witness ==
  /\ pc = "idle"
  /\ result = Result("resolve", Unmatched)
  /\ ev = <<<<"resolve", "unmatched", "T2">>>>
  /\ store.state = NEED_CLARIFICATION
  /\ ClarIdsOf(store) = {"T1"}
  /\ OutstandingPos(store) # {}

\* C20: wait_for_ready on a COMPLETE or FAILED run raises
\* InvalidPlanRunStateError; on an IN_PROGRESS, NOT_STARTED or READY_TO_RESUME
\* run it returns at once: the run is not loaded again, the readiness check is
\* not asked, nothing is slept and nothing is saved.
C20_WaitOutsidePause ==
  [][WaitCalled
       => /\ store.state \in {COMPLETE, FAILED}
               => /\ result' = Result("wait", InvalidState)
                  /\ pc' = "idle"
                  /\ store' = store
          /\ store.state \in {IN_PROGRESS, NOT_STARTED, READY_TO_RESUME}
               => /\ result' = Result("wait", Returned)
                  /\ pc' = "idle"
                  /\ store' = store
                  /\ polled' = NoPoll
                  /\ ev' = <<>>
                  /\ wrun' = NoRun]_vars
C20_Witness ==
  /\ pc = "idle"
  /\ result = Result("wait", Returned)
  /\ store.state = READY_TO_RESUME
  /\ Len(plan) = 2
  /\ store.current_step_index = 1
  /\ store.step_outputs[0] = Out("val", 0, FALSE)
\* wait_for_ready has raised on a COMPLETE run, on a FAILED run
C20_WitnessComplete == result = Result("wait", InvalidState) /\ store.state = COMPLETE
C20_WitnessFailed == result = Result("wait", InvalidState) /\ store.state = FAILED

\* C21: while a call is running the current step index of the run, persisted
\* and in memory, never decreases, and every write that records a step's output
\* records with it a current step index equal to that step's index.
C21_IndexWithOutput ==
  [][pc # "idle"
       => /\ store'.current_step_index >= store.current_step_index
          /\ (mem # NoRun /\ mem' # NoRun)
               => mem'.current_step_index >= mem.current_step_index
          /\ \A j \in StepIdx(plan) :
               store'.step_outputs[j] # store.step_outputs[j]
                 => store'.current_step_index = j]_vars
C21_Witness ==
  /\ pc = "step"
  /\ Len(plan) = 3
  /\ calls = <<0, 1>>
  /\ store.current_step_index = 1
  /\ store.step_outputs[0] = Out("val", 0, FALSE)
  /\ store.step_outputs[1] = Out("val", 1, FALSE)
  /\ store.step_outputs[2] = NoOutput

\* the step whose agent ran last, and the ids of the clarifications its output held
LastAgentStep == calls[Len(calls)]
OutputClarIds ==
  LET t == plan[LastAgentStep + 1].tool_id IN
  IF HasEv(<<"clarifications", "input">>) THEN {InputClar}
  ELSE IF HasEv(<<"clarifications", "tool">>) THEN {t}
  ELSE {t, InputClar}
\* every one of these ids is held by the persisted run, unresolved or not, with
\* the current step index
HeldAtCurrentStep(ids) ==
  \A id \in ids :
    \E q \in 1 .. Len(store.clarifications) :
      /\ store.clarifications[q].id = id
      /\ store.clarifications[q].step = store.current_step_index
\* what the readiness check run with the step's clarifications reported
GateClarIds ==
  LET gate == CheckRemainingToolReadiness(plan, polled.from, polled.unready) IN
  {gate[q].id : q \in 1 .. Len(gate)}

\* C23: when a step's output is or holds clarifications, the step loop returns
\* with each of them in the persisted clarification list under the current step
\* index, together with those of the readiness check, and the run
\* NEED_CLARIFICATION, whether the check ran from the current step or from the
\* next.
C23_OutputClarificationsStored ==
  HasEv(<<"agent", "clar">>)
    => /\ store.state = NEED_CLARIFICATION
       /\ store.current_step_index = LastAgentStep
       /\ HeldAtCurrentStep(OutputClarIds)
       /\ HeldAtCurrentStep(GateClarIds)
\* for a check run from the next step only, the run holds every one of these
\* ids (an id it held already stays as it was, whatever its step and answer)
C23_StoredWhenCheckedFromNext ==
  (HasEv(<<"agent", "clar">>) /\ polled.from = LastAgentStep + 1)
    => /\ store.state = NEED_CLARIFICATION
       /\ store.current_step_index = LastAgentStep
       /\ OutputClarIds \cup GateClarIds \subseteq ClarIdsOf(store)
\* the step's clarification is lost: the check ran from the current step and
\* reported nothing, and the run is NEED_CLARIFICATION with no clarification
C23_ClarificationLost ==
  /\ HasEv(<<"agent", "clar">>)
  /\ polled.from = LastAgentStep
  /\ store.state = NEED_CLARIFICATION
  /\ store.clarifications = <<>>

\* the tools of steps i .. end, the queries of a check from i, what a query returns
GateFrom == polled.from
GateTargets == ToolsFrom(plan, GateFrom)
GateQueries == ReadinessQueries(plan, GateFrom)
QueryAnswer(query, unready) ==
  IF query.kind = "batch" THEN BatchReadyCheck(query.tools, unready)
  ELSE IF query.tools \subseteq unready
  THEN <<NewClarification(CHOOSE t \in query.tools : TRUE)>>
  ELSE <<>>
RECURSIVE Answers(_, _)
Answers(queries, unready) ==
  IF queries = <<>> THEN <<>>
  ELSE QueryAnswer(Head(queries), unready) \o Answers(Tail(queries), unready)

\* C24: a readiness check from index i asks each distinct tool of steps i .. end
\* exactly once: a tool that is not remote by one ready() of its own, the remote
\* tools together by one batch query made after the scan (none when there is
\* no remote tool); it asks no tool that only earlier steps use and nothing for
\* a step without a tool; what it returns is what the queries returned, in order.
C24_EachToolAskedOnce ==
  polled # NoPoll
    => /\ \A t \in GateTargets :
            /\ Cardinality({q \in 1 .. Len(GateQueries) : t \in GateQueries[q].tools}) = 1
            /\ \A q \in 1 .. Len(GateQueries) :
                 t \in GateQueries[q].tools
                   => GateQueries[q] = IF IsRemote(t)
                                       THEN BatchQuery(GateTargets \cap RemoteTools)
                                       ELSE ReadyQuery(t)
       /\ \A q \in 1 .. Len(GateQueries) :
            /\ GateQueries[q].tools # {}
            /\ GateQueries[q].tools \subseteq GateTargets
            /\ GateQueries[q].kind = "batch" => q = Len(GateQueries)
       /\ Cardinality({q \in 1 .. Len(GateQueries) : GateQueries[q].kind = "batch"})
            = IF GateTargets \cap RemoteTools = {} THEN 0 ELSE 1
       /\ CheckRemainingToolReadiness(plan, GateFrom, polled.unready)
            = Answers(GateQueries, polled.unready)
       /\ todo = [q \in 1 .. Len(Answers(GateQueries, polled.unready)) |->
                    Answers(GateQueries, polled.unready)[q].id]
\* a check from step 1 of a plan T1, portia:R1, T1, portia:R2 ... with T1 asked
\* once and both remote tools in one batch; T2 of step 0 is not asked
C24_Witness ==
  /\ Len(plan) = 3
  /\ plan[1].tool_id = "T2"
  /\ plan[2].tool_id = "portia:R1"
  /\ plan[3].tool_id = "T1"
  /\ polled = Poll(1, {"T2", "T1", "portia:R1"})
  /\ GateQueries = <<ReadyQuery("T1"), BatchQuery({"portia:R1"})>>
  /\ todo = <<"T1", "portia:R1">>

\* this step is one pass of wait_for_ready's loop from its condition to its
\* sleep (not an interrupt, not a crash), on a run that is not READY_TO_RESUME
WaitLoopStep ==
  /\ pc = "wait"
  /\ wrun.state # READY_TO_RESUME
  /\ result'.outcome # "crashed"
  /\ "interrupt" \notin flags'
TimeoutRaised == pc' = "idle" /\ result' = Result(WaitOp, WaitTimeout)

\* C25 as stated: wait_for_ready raises the timeout only once its retry counter
\* is strictly greater than max_retries; with max_retries = 0 the readiness
\* check is still asked before the timeout.
C25_TimeoutAboveMaxRetries ==
  [][(WaitLoopStep /\ TimeoutRaised)
       => (tries > wpar.max_retries /\ (wpar.max_retries = 0 => polls > 0))]_vars
\* C25 as the code has it: each pass of the loop raises the timeout if and only
\* if the retry counter has reached max_retries (tries >= max_retries), before
\* the pass sleeps or asks the readiness check; with max_retries = 0 the first
\* pass raises, with nothing asked.
C25_TimeoutAtMaxRetries ==
  /\ [][WaitLoopStep => (TimeoutRaised <=> tries >= wpar.max_retries)]_vars
  /\ [][(WaitLoopStep /\ TimeoutRaised) => UNCHANGED store]_vars
  /\ []((pc \in {"wait", "sleep"} /\ wpar.max_retries = 0) => (tries = 0 /\ pc = "wait"))
  /\ [](pc \in {"wait", "sleep"} => tries <= wpar.max_retries)
C25_Witness ==
  /\ pc = "wait"
  /\ wctx = "caller"
  /\ wpar.max_retries = 2
  /\ tries = 2
  /\ wrun.state = NEED_CLARIFICATION
  /\ store.state = NEED_CLARIFICATION
\* a wait with max_retries = 0 about to raise with nothing asked
C25_WitnessZero ==
  /\ pc = "wait"
  /\ wctx = "caller"
  /\ wpar.max_retries = 0
  /\ tries = 0
  /\ polls = 0
  /\ elapsed = 0
  /\ wrun.state = NEED_CLARIFICATION

RECURSIVE Pow2(_)
Pow2(n) == IF n = 0 THEN 1 ELSE 2 * Pow2(n - 1)
InWait == pc \in {"wait", "sleep"}

\* C26: in wait_for_ready, while the time waited has not exceeded
\* backoff_start_time_seconds the retry counter is 0 and the sleep is the
\* initial one, so with max_retries >= 1 no number of polls raises the timeout;
\* once it has, every pass adds one to the counter and doubles the sleep: after
\* n such passes the sleep is the initial one times 2^n.
C26_BackoffAfterStart ==
  /\ []((InWait /\ elapsed <= wpar.backoff_start)
          => (tries = 0 /\ interval = wpar.backoff_time))
  /\ [](InWait => interval = wpar.backoff_time * Pow2(tries))
  /\ [][(WaitLoopStep /\ TimeoutRaised /\ wpar.max_retries >= 1)
          => elapsed > wpar.backoff_start]_vars
  /\ [][(WaitLoopStep /\ ~TimeoutRaised)
          => /\ pc' = "sleep"
             /\ elapsed' >= elapsed
             /\ \/ tries' = tries + 1 /\ interval' = 2 * interval
                \/ tries' = tries /\ interval' = interval
             /\ elapsed > wpar.backoff_start => tries' = tries + 1
             /\ tries' = tries + 1 => elapsed' > wpar.backoff_start]_vars
\* after one poll before the backoff period and three passes in it, the sleep
\* of a wait with the defaults is 2 * 2^3
C26_Witness ==
  /\ pc = "wait"
  /\ wctx = "handler"
  /\ wpar = HandlerWaitParams
  /\ polls = 1
  /\ tries = 3
  /\ interval = 16
  /\ wrun.state = NEED_CLARIFICATION

\* this step is the readiness check of wait_for_ready's loop and what follows it
WaitWakeStep == pc = "sleep" /\ pc' = "wait"
GateWasReady == ev' = <<<<"ready_check", "ready">>>>

\* C27: wait_for_ready marks a clarification resolved only at a poll whose
\* readiness check reported nothing, and only an ACTION clarification of the
\* run's current step; it sets READY_TO_RESUME (its only write) only when the run
\* it holds has nothing unresolved: a run with an unresolved clarification of
\* another category is not moved to READY_TO_RESUME by it.
C27_AutoResolveOnlyAction ==
  [][WaitWakeStep
       => /\ Len(wrun'.clarifications) = Len(wrun.clarifications)
          /\ \A q \in 1 .. Len(wrun.clarifications) :
               wrun'.clarifications[q] # wrun.clarifications[q]
                 => /\ GateWasReady
                    /\ wrun.clarifications[q].category = CatAction
                    /\ wrun.clarifications[q].step = wrun.current_step_index
                    /\ wrun'.clarifications[q] =
                         [wrun.clarifications[q] EXCEPT !.resolved = TRUE,
                                                        !.response = "complete"]
          /\ wrun'.state # wrun.state
               => (wrun'.state = READY_TO_RESUME /\ GateWasReady)
          /\ wrun'.state = READY_TO_RESUME => OutstandingPos(wrun') = {}
          /\ store' # store => (store' = wrun' /\ store'.state = READY_TO_RESUME)
          /\ (\E q \in OutstandingPos(wrun) : wrun.clarifications[q].category # CatAction)
               => (wrun'.state = wrun.state /\ store' = store)]_vars
\* a poll found the tools ready and marked T1's ACTION clarification, and the
\* run stays NEED_CLARIFICATION for its unanswered INPUT clarification
C27_Witness ==
  /\ pc = "wait"
  /\ ev = <<<<"ready_check", "ready">>>>
  /\ Len(wrun.clarifications) = 2
  /\ wrun.clarifications[1].category = CatAction
  /\ wrun.clarifications[1].resolved
  /\ wrun.clarifications[1].response = "complete"
  /\ wrun.clarifications[2].category = CatInput
  /\ ~wrun.clarifications[2].resolved
  /\ wrun.state = NEED_CLARIFICATION
  /\ store.state = NEED_CLARIFICATION
  /\ ~store.clarifications[1].resolved

\* this step is one pass of the step loop's body, for step index (not an
\* interrupt, not a crash)
StepPass ==
  /\ pc = "step"
  /\ index < Len(plan)
  /\ result'.outcome # "crashed"
  /\ "interrupt" \notin flags'
Consulted == \E q \in 1 .. Len(ev') : ev'[q][1] = "introspection"
HookCalled == \E q \in 1 .. Len(ev') : ev'[q][1] = "before_step_execution"
AgentCalled == \E q \in 1 .. Len(ev') : ev'[q][1] = "agent"

\* C28: the introspection agent is asked about a step if and only if the step
\* declares a condition; on SKIP the skipped sentinel is recorded (and saved) as
\* that step's output, neither before_step_execution nor the agent is called
\* for the step, and the loop goes on to the next index.
C28_SkipOnIntrospection ==
  [][StepPass
       => /\ Consulted <=> plan[index + 1].condition
          /\ (\E q \in 1 .. Len(ev') : ev'[q] = <<"introspection", "SKIP">>)
               => /\ store' = [store EXCEPT
                                 !.current_step_index = index,
                                 !.step_outputs[index] = Out(SKIPPED_OUTPUT, index, TRUE)]
                  /\ mem' = store'
                  /\ ~HookCalled
                  /\ ~AgentCalled
                  /\ calls' = calls
                  /\ index' = index + 1
                  /\ pc' = "step"]_vars
\* step 0 (with a condition) was executed and step 1 (with a condition) skipped
C28_Witness ==
  /\ pc = "step"
  /\ ev = <<<<"introspection", "SKIP">>>>
  /\ Len(plan) = 2
  /\ plan[2].condition
  /\ index = 2
  /\ calls = <<0>>
  /\ store.step_outputs[0] = Out("val", 0, FALSE)
  /\ store.step_outputs[1] = Out(SKIPPED_OUTPUT, 1, TRUE)
  /\ store.current_step_index = 1
  /\ store.state = IN_PROGRESS

IntrospectionCompleted == \E q \in 1 .. Len(ev') : ev'[q] = <<"introspection", "COMPLETE">>

\* C29: on a COMPLETE outcome of the introspection at step k the completed
\* sentinel is recorded as step k's output, the final output is computed from
\* the last real step output (a value an agent produced: not a sentinel, not an
\* output that holds clarifications), also when the loop was entered at k by a
\* Resume, the run is set COMPLETE and returned, and no agent is called for
\* step k or a later step.
C29_CompleteOnIntrospection ==
  [][(StepPass /\ IntrospectionCompleted)
       => /\ store'.step_outputs[index] = Out(COMPLETED_OUTPUT, index, TRUE)
          /\ store'.current_step_index = index
          /\ store'.state = COMPLETE
          /\ store'.final_output.kind \in {"none", "val"}
          /\ calls' = calls
          /\ ~AgentCalled
          /\ pc' \in {"exec", "idle"}]_vars
\* the same without the requirement on what the final output is computed from
C29_CompleteRecordedAndReturned ==
  /\ [][(StepPass /\ IntrospectionCompleted)
          => /\ store'.step_outputs[index] = Out(COMPLETED_OUTPUT, index, TRUE)
             /\ store'.current_step_index = index
             /\ store'.state = COMPLETE
             /\ store'.final_output.kind = last.kind
             /\ store'.final_output.step = last.step
             /\ calls' = calls
             /\ ~AgentCalled
             /\ pc' \in {"exec", "idle"}]_vars
  /\ [][(pc = "exec" /\ mem.state = COMPLETE /\ "interrupt" \notin flags'
           /\ result'.outcome # "crashed")
          => (pc' = "idle" /\ result' = Result("resume", Returned) /\ store' = store)]_vars
\* a run completed by the introspection whose final output is an output that
\* holds clarifications
C29_FinalOutputFromClarification ==
  /\ ResumeReturned
  /\ store.state = COMPLETE
  /\ store.final_output.kind = "clar"
  /\ \E j \in StepIdx(plan) : store.step_outputs[j].kind = COMPLETED_OUTPUT
C29_FinalOutputFromSentinel ==
  /\ ResumeReturned
  /\ store.state = COMPLETE
  /\ store.final_output.kind = SKIPPED_OUTPUT
\* clarifications are handed to the handler only for a NEED_CLARIFICATION run
HandledOnlyWhenPaused == pc = "handle" => mem.state = NEED_CLARIFICATION

\* this step is one pass of the step loop's body or what follows the loop (not
\* an interrupt, not a crash)
LoopPass ==
  /\ pc = "step"
  /\ result'.outcome # "crashed"
  /\ "interrupt" \notin flags'
AfterPlanRunCalled == \E q \in 1 .. Len(ev') : ev'[q][1] = "after_plan_run"

\* C30 as stated: after_plan_run is called in exactly the executions of the
\* step loop that end the run, COMPLETE or FAILED, and in none that returns for
\* a clarification.
C30_AfterRunWhenRunEnds ==
  [][LoopPass => (AfterPlanRunCalled <=> store'.state \in {COMPLETE, FAILED})]_vars
\* C30 as the code has it: after_plan_run is called in exactly the executions
\* of the step loop that end the run with a final output set: after a failed
\* step always (FAILED saved, after_step_execution called first), after the
\* last step or an introspection COMPLETE only if the run has a final output
\* (COMPLETE saved); it is the last thing called, and it is never called when
\* the loop returns for a clarification.
C30_AfterRunWhenFinalOutput ==
  [][LoopPass
       => /\ AfterPlanRunCalled
               <=> (store'.state \in {COMPLETE, FAILED} /\ store'.final_output # NoOutput)
          /\ AfterPlanRunCalled
               => /\ ev'[Len(ev')][1] = "after_plan_run"
                  /\ \A q \in 1 .. Len(ev') - 1 : ev'[q][1] # "after_plan_run"
                  /\ store'.state = FAILED
                       => (Len(ev') >= 2 /\ ev'[Len(ev') - 1] = <<"after_step_execution", "err">>)
          /\ store'.state = FAILED => AfterPlanRunCalled
          /\ store'.state = NEED_CLARIFICATION => ~AfterPlanRunCalled]_vars
\* a 2-step run has just been completed after its second step and after_plan_run
\* called
C30_Witness ==
  /\ pc = "exec"
  /\ Len(plan) = 2
  /\ calls = <<0, 1>>
  /\ ev = <<<<"after_plan_run", "">>>>
  /\ store.state = COMPLETE
  /\ store.final_output.kind = "val"
  /\ store.final_output.step = 1
\* a run of skipped steps has just been completed with no final output and
\* without after_plan_run
C30_WitnessNoFinalOutput ==
  /\ pc = "exec"
  /\ Len(plan) = 2
  /\ calls = <<>>
  /\ ev = <<>>
  /\ store.state = COMPLETE
  /\ store.final_output = NoOutput
\* a step has just failed: after_step_execution, then after_plan_run
C30_WitnessFailed ==
  /\ store.state = FAILED
  /\ Len(ev) >= 2
  /\ ev[Len(ev)] = <<"after_plan_run", "">>
  /\ ev[Len(ev) - 1] = <<"after_step_execution", "err">>

\* C22: with two runs driven by interleaved Resume, resolve_clarification,
\* error_clarification and wait_for_ready calls of independent callers, an
\* operation called for one run changes neither the persisted record (state,
\* step outputs, clarifications, final output, current step index) of the other
\* run nor the object its caller holds.
C22_OtherRunUntouched ==
  [][\A r \in RunIds :
       r # actor' => (storage'[r] = storage[r] /\ held'[r] = held[r])]_vars
\* run1 completes with the last call made, while run2, executed before that call,
\* is paused at its first step for a clarification of its own
C22_Witness ==
  /\ actor = "run1"
  /\ storage["run1"].state = COMPLETE
  /\ storage["run1"].step_outputs[1] = Out("val", 1, FALSE)
  /\ storage["run1"].clarifications = <<>>
  /\ storage["run2"].state = NEED_CLARIFICATION
  /\ storage["run2"].current_step_index = 0
  /\ storage["run2"].step_outputs[0] = Out("clar", 0, FALSE)
  /\ OutstandingPos(storage["run2"]) # {}

\* ---------------------------------------------------------------- C31
\* the step executed by this pass had its agent executed in an earlier pass,
\* which recorded an output holding clarifications
RaisedClarificationBefore == mem.step_outputs[index].kind = "clar"

\* C31: before_step_execution is called before the agent of every step that is
\* executed, except for a step whose agent was executed in an earlier pass and
\* raised a clarification: a step that has never been executed gets the hook
\* before its first agent.
C31_HookBeforeAgent ==
  [][(StepPass /\ AgentCalled) => (HookCalled \/ RaisedClarificationBefore)]_vars
\* the hook is left out exactly when the run holds a clarification tagged with
\* the step's index, and when it is called it is called before the agent
C31_HookUnlessClarificationForStep ==
  [][(StepPass /\ AgentCalled)
       => /\ HookCalled <=> StepClarPos(AtStep(mem, index)) = {}
          /\ \A q \in 1 .. Len(ev') :
               ev'[q][1] = "before_step_execution"
                 => \E a \in (q + 1) .. Len(ev') : ev'[a][1] = "agent"]_vars
\* a step never executed has had its agent called without the hook: the run
\* holds a readiness clarification tagged with the step's index
C31_FirstAgentWithoutHook ==
  /\ calls # <<>>
  /\ HasEv(<<"agent", "val">>)
  /\ ~\E q \in 1 .. Len(ev) : ev[q][1] = "before_step_execution"
  /\ store.step_outputs[LastAgentStep] = Out("val", LastAgentStep, FALSE)
  /\ \E q \in 1 .. Len(store.clarifications) :
       store.clarifications[q].step = LastAgentStep
  /\ "clar" \notin flags

\* ---------------------------------------------------------------- C32
\* this step assembles the final output: after the last step, or on the
\* COMPLETE outcome of the introspection, with a last executed step output
FinalOutputAssembled ==
  /\ LoopPass
  /\ last # NoOutput
  /\ index >= Len(plan) \/ IntrospectionCompleted

\* C32: a failure of the summarizer does not leave _get_final_output: whether
\* or not the summarizer failed, the run is saved COMPLETE, the call goes on
\* without raising, and the final output holds the value of the last executed
\* step output, without a summary when the summarizer failed.
C32_SummarizerFailureSwallowed ==
  [][FinalOutputAssembled
       => /\ store'.state = COMPLETE
          /\ pc' = "exec"
          /\ result' = Result("resume", "running")
          /\ store'.final_output \in {Out(last.kind, last.step, s) : s \in BOOLEAN}]_vars
\* a Resume has returned a COMPLETE run whose final output is the value of the
\* last step's output without a summary: the summarizer failed
C32_Witness ==
  /\ ResumeReturned
  /\ plan # <<>>
  /\ store.state = COMPLETE
  /\ store.final_output = Out("val", Len(plan) - 1, FALSE)
  /\ store.step_outputs[Len(plan) - 1] = Out("val", Len(plan) - 1, FALSE)

\* ---------------------------------------------------------------- C33
\* C33: a persisted run in NEED_CLARIFICATION holds at least one unresolved
\* clarification.
C33_PausedRunHasUnresolved ==
  store.state = NEED_CLARIFICATION => OutstandingPos(store) # {}
\* a step of a remote tool returned that tool's action clarification, the
\* readiness check made from that step reported nothing, and the run was saved
\* NEED_CLARIFICATION holding no clarification at all
C33_PausedWithNothingToResolve ==
  /\ store.state = NEED_CLARIFICATION
  /\ store.clarifications = <<>>
  /\ HasEv(<<"clarifications", "tool">>)
  /\ IsRemote(plan[LastAgentStep + 1].tool_id)
  /\ polled = Poll(LastAgentStep, {})
  /\ store.step_outputs[LastAgentStep] = Out("clar", LastAgentStep, FALSE)

\* ---------------------------------------------------------------- C34
\* C34: no agent is invoked while the run, as the executing call holds it or as
\* the store holds it, has an unresolved clarification.
C34_NoAgentWhileUnresolved ==
  [][AgentInvoked => (OutstandingPos(mem) = {} /\ OutstandingPos(store) = {})]_vars

\* an agent has just been invoked in a Resume of a run that was paused for an
\* input clarification, after the caller resolved it
C34_Witness ==
  /\ calls # <<>>
  /\ \E q \in 1 .. Len(ev) : ev[q][1] = "agent"
  /\ start.state = READY_TO_RESUME
  /\ \E q \in 1 .. Len(store.clarifications) :
       /\ store.clarifications[q].id = InputClar
       /\ store.clarifications[q].resolved
\* the same with a clarification handler that resolved it inside the Resume
C34_WitnessHandler ==
  /\ handler
  /\ Len(calls) >= 2
  /\ \E q \in 1 .. Len(ev) : ev[q][1] = "agent"
  /\ store.clarifications # <<>>
  /\ OutstandingPos(store) = {}

\* ---------------------------------------------------------------- C35
\* C35: a Resume call ends. Without a clarification handler the loop of
\* execute_plan_run_and_handle_clarifications runs the step loop again only for
\* a run that made progress: within one Resume the steps whose agents are
\* invoked are strictly increasing, so that at most Len(plan) agents are invoked
\* before the call returns.
C35_EachPassAdvances ==
  ~handler => \A a, b \in 1 .. Len(calls) : a < b => calls[a] < calls[b]
\* inside one Resume the agent of the same step of a remote tool has been
\* invoked MaxCalls times, each time returning the tool's action clarification
\* while the readiness check reported nothing: the run holds no clarification
\* and the loop goes round again
C35_SameStepAgain ==
  /\ ~handler
  /\ Len(calls) = MaxCalls
  /\ \A a \in 1 .. Len(calls) : calls[a] = 0
  /\ IsRemote(plan[1].tool_id)
  /\ start.state = NOT_STARTED
  /\ store.state = NEED_CLARIFICATION
  /\ store.clarifications = <<>>
  /\ pc = "exec"

\* ---------------------------------------------------------------- C36
NoResolveInProgress == \A c \in Callers : loaded[c] = NoLoad
ResolveReturnedFor(id) == \E q \in 1 .. Len(ev) : ev[q] = <<"resolve", id>>

\* C36: once the resolve_clarification calls of two callers for different
\* clarifications of one run have returned, however they overlapped, the
\* persisted run holds every clarification a returned call resolved as
\* resolved, and when that is all of them it is in READY_TO_RESUME.
C36_NoResolutionLost ==
  NoResolveInProgress
    => /\ \A k \in 1 .. Len(store.clarifications) :
            ResolveReturnedFor(store.clarifications[k].id)
              => store.clarifications[k].resolved
       /\ (\A k \in 1 .. Len(store.clarifications) :
             ResolveReturnedFor(store.clarifications[k].id))
            => store.state = READY_TO_RESUME
\* two overlapping calls for the two clarifications of a run have returned: the
\* one saved first is unresolved again in the persisted run, which is still in
\* NEED_CLARIFICATION
C36_ResolutionLost ==
  /\ NoResolveInProgress
  /\ Len(ev) = 2
  /\ ev[1][2] # ev[2][2]
  /\ Len(store.clarifications) = 2
  /\ ~store.clarifications[MatchedPos(store, ev[1][2])].resolved
  /\ store.clarifications[MatchedPos(store, ev[2][2])].resolved
  /\ store.state = NEED_CLARIFICATION
\* calls that do not overlap lose nothing: a call that saves the run as it
\* loaded it, with its clarification marked, leaves every other clarification
\* as the store had it
C36_CallAloneKeepsOthers ==
  [][\A c \in Callers :
       (loaded[c] # NoLoad /\ loaded'[c] = NoLoad /\ loaded[c].run = store)
         => \A k \in 1 .. Len(store.clarifications) :
              store.clarifications[k].resolved => store'.clarifications[k].resolved]_vars

\* ---------------------------------------------------------------- C37
\* C37: a persisted run in READY_TO_RESUME has no unresolved clarification;
\* resolve_clarification and wait_for_ready, the two writers of that state,
\* write it only for a run that has none.
C37_ReadyRunHasNoneUnresolved ==
  /\ [](store.state = READY_TO_RESUME => OutstandingPos(store) = {})
  /\ [][(store'.state = READY_TO_RESUME /\ store.state # READY_TO_RESUME)
          => /\ OutstandingPos(store') = {}
             /\ \/ \E q \in 1 .. Len(ev') : ev'[q][1] \in {"resolve", "ready_check"}
                \/ ev' = <<<<"handler", "resolve">>>>]_vars
\* resolve_clarification has just resolved the last of two clarifications: the
\* run went from NEED_CLARIFICATION to READY_TO_RESUME
C37_Witness ==
  /\ store.state = READY_TO_RESUME
  /\ Len(store.clarifications) = 2
  /\ OutstandingPos(store) = {}
  /\ result = Result("resolve", Returned)
  /\ \A q \in 1 .. 2 : store.clarifications[q].response = "user"
\* wait_for_ready has set READY_TO_RESUME after marking the action clarification
\* of the current step, the input clarification having been resolved before
C37_WitnessWait ==
  /\ store.state = READY_TO_RESUME
  /\ ev = <<<<"ready_check", "ready">>>>
  /\ \E q \in 1 .. Len(store.clarifications) :
       store.clarifications[q].response = "complete"
  /\ \E q \in 1 .. Len(store.clarifications) :
       store.clarifications[q].response = "user"

\* ---------------------------------------------------------------- C38
\* C38: in every persisted state of the run every unresolved clarification is
\* tagged with the run's current step index, the readiness clarifications of
\* tools of later steps included; the persisted index does not change while a
\* clarification is unresolved.
C38_UnresolvedAtCurrentStep ==
  /\ [](\A q \in OutstandingPos(store) :
          store.clarifications[q].step = store.current_step_index)
  /\ [][OutstandingPos(store) # {}
          => store'.current_step_index = store.current_step_index]_vars
\* the run is paused at its second step holding, unresolved, a readiness
\* clarification of the third step's tool, tagged with the second step's index
C38_Witness ==
  /\ Len(plan) = 3
  /\ store.state = NEED_CLARIFICATION
  /\ store.current_step_index = 1
  /\ store.step_outputs[0] = Out("val", 0, FALSE)
  /\ \E q \in OutstandingPos(store) :
       /\ store.clarifications[q].id = plan[3].tool_id
       /\ store.clarifications[q].step = 1

\* ---------------------------------------------------------------- C39
BeforePlanRunCalled == \E q \in 1 .. Len(ev') : ev'[q][1] = "before_plan_run"
\* _execute_plan_run has been entered for this run before: it was left
\* IN_PROGRESS, or one of its steps has an output recorded
ExecutedBefore(run) ==
  \/ run.state = IN_PROGRESS
  \/ \E i \in DOMAIN run.step_outputs : run.step_outputs[i] # NoOutput

\* C39: before_plan_run is called at most once in the life of a run: it is not
\* called for a run that _execute_plan_run was entered for before, whether in
\* an earlier pass of the same Resume or in an earlier Resume that paused.
C39_BeforeRunOnce ==
  [][BeforePlanRunCalled => ~ExecutedBefore(store)]_vars
\* before_plan_run is called by every entry of _execute_plan_run at index 0 and
\* by no other
C39_BeforeRunAtIndexZero ==
  [][(pc = "exec" /\ pc' = "step") => (BeforePlanRunCalled <=> mem.current_step_index = 0)]_vars
\* a later Resume of a run that paused at step 0 for a clarification of that
\* step has called before_plan_run again
C39_CalledAgain ==
  /\ ev = <<<<"before_plan_run", "">>>>
  /\ start = [state |-> READY_TO_RESUME, index |-> 0]
  /\ store.step_outputs[0] = Out("clar", 0, FALSE)
  /\ store.state = IN_PROGRESS

====
